---- MODULE Spec2Model ----
(***************************************************************************)
(* A model of the Olang compiler (pointertobios/olang-compiler):           *)
(*   - the include preprocessor   processIncludes   (part_000:748-806)     *)
(*   - the driver                 main              (part_000:808-939)     *)
(*   - the backend                emitObjectFile    (part_000:678-729)     *)
(* Source text is modelled as a sequence of tokens; the tokens that the    *)
(* preprocessor searches for (the keyword `include `, the double quote and *)
(* the semicolon) are tokens of their own, so that std::string::find is    *)
(* modelled by a search over token positions.                              *)
(***************************************************************************)
EXTENDS Integers, Sequences, FiniteSets, TLC

VARIABLES
    \* ---- file system and preprocessor (processIncludes) ----
    fs,              \* canonical path -> [st, text]; "unknown" until first read
    included_files,  \* std::set<std::string> included_files
    ppStack,         \* activation records of processIncludes, innermost last
    ppPhase,         \* "idle" | "call" | "scan" | "ret" | "done" | "terminated"
    ppArg,           \* the filename argument of the call being entered
    ppRet,           \* the string the last call returned
    requested,       \* history: canonical paths processIncludes was asked for
    retRepeat,       \* history: the last return answered a repeated request
    diag,            \* number of "Cannot open file" diagnostics on std::cerr
    budget,          \* items the files not yet read may still hold (model bound)
    \* ---- driver (main) ----
    pc,              \* position of main
    input,           \* std::string input
    emit_llvm,       \* bool emit_llvm
    verified,        \* "none" | "ok" | "failed": what verifyModule returned
    called,          \* which of optimizeAndEmit / emitObjectFile were called
    emitRet,         \* "none" | "true" | "false": what emitObjectFile returned
    outFile,         \* "untouched" | "truncated" | "written": the output path
    failure,         \* history: the first stage that failed, or "none"
    exitCode,        \* -1 while running or killed by a signal, else main's return
    \* ---- module builder (Program::codegen) ----
    declarations,    \* Program::declarations: the kinds of the declarations
    sweep,           \* which of the three loops is running, or "done"
    declIdx,         \* the loop variable: index of the next declaration
    struct_types,    \* CodeGenContext::struct_types (indices of the StructDecls)
    moduleFns,       \* functions of the llvm::Module, in order of creation
    genLog,          \* history: the declarations in the order they were generated
    \* ---- function generator (FunctionDecl::codegen and the statements) ----
    genPc,           \* "idle" | "start" | "run" | "done" | "crashed"
    blocks,          \* the basic blocks created, by number; block 1 is entry
    cur,             \* the block of the builder's insertion point
    alloca_table,    \* CodeGenContext::alloca_table, innermost scope last
    value_table,     \* CodeGenContext::value_table, innermost scope last
    nAlloca,         \* number of alloca instructions created
    scopeOps,        \* history: how often enterScope and exitScope ran
    work,            \* the generators that are active, innermost last
    fnRet,           \* the TypeKind of FunctionDecl::return_type
    stmtsLeft,       \* statements the source may still hold (model bound)
    \* ---- one function "fn f(..) -> i32 { return E; }" ----
    exPc,            \* "source" | "ast" | "returned" | "idle"
    exToks,          \* the tokens of E
    exAst,           \* the Expr tree the AST builder made of E
    exRet,           \* what the emitted f returns
    \* ---- the AST builder on one if statement ----
    ifPc,            \* "then" | "else" | "closed" | "built" | "idle"
    children,        \* ctx->children of the If_statementContext
    srcThen,         \* history: the statements written in the first braces
    srcElse,         \* history: the statements written in the else braces
    then_body,       \* IfStmt::then_body
    else_body,       \* IfStmt::else_body
    \* ---- assignments to and reads of locals, generated and run ----
    asPc,            \* "run" | "crashed" | "idle"
    fields,          \* the field names struct P declares, in order
    mem,             \* the memory of the locals, by <<name, element, field index>>
    shadow,          \* history: what each source location was last assigned
    clean,           \* history: every store so far was an in-bounds a[i] = v, a
                     \* p.m = v with m declared, or a scalar x = v
    last,            \* the statement generated last and what came of it
    accesses,        \* statements generated so far
    \* ---- the code generated for one binary expression ----
    bPc,             \* "source" | "generated" | "idle"
    bAst,            \* the expression written so far
    bOps,            \* binary operators in it
    bOut,            \* the instructions emitted, each with the path of its node
    bBlocks,         \* basic blocks of the function
    bRet,            \* whether codegen returned a value
    \* ---- calls between the declarations of a program ----
    cPc,             \* "source" | "extern" | "fn" | "done" | "idle"
    cDecls,          \* Program::declarations, externs and functions
    cIdx,            \* position of the running loop of Program::codegen
    cModule,         \* the names Module::getFunction finds
    cLog,            \* what the call in each generated body came to
    \* ---- member access on a name that is declared more than once ----
    mPc,             \* "start" | "run" | "idle"
    mAllocaTable,    \* CodeGenContext::alloca_table: frames of name -> alloca
    mValueTable,     \* CodeGenContext::value_table: frames of name -> SSA value
    mTypes,          \* getAllocatedType() of each alloca, by number
    mLast,           \* the member access generated last and what came of it
    \* ---- the AST builder on the statements of one function ----
    tPc,             \* "body" | "declared" | "done" | "idle"
    tSrc,            \* history: the statements of the function, as written
    tStack,          \* ASTVisitor::node_stack
    tBody,           \* FunctionDecl::body
    \* ---- the AST builder on one postfix expression ----
    pfPc,            \* "source" | "built" | "idle"
    pfChildren,      \* ctx->children of the Postfix_exprContext
    pfSuffixes,      \* suffixes written so far
    pfNode           \* the node visitPostfix_expr pushes

ppVars == <<fs, included_files, ppStack, ppPhase, ppArg, ppRet, requested,
            retRepeat, diag, budget>>
drvVars == <<pc, input, emit_llvm, verified, called, emitRet, outFile,
             failure, exitCode>>
progVars == <<declarations, sweep, declIdx, struct_types, moduleFns, genLog>>
genVars == <<genPc, blocks, cur, alloca_table, value_table, nAlloca, scopeOps,
             work, fnRet, stmtsLeft>>
exVars == <<exPc, exToks, exAst, exRet>>
ifVars == <<ifPc, children, srcThen, srcElse, then_body, else_body>>
asVars == <<asPc, fields, mem, shadow, clean, last, accesses>>
bVars == <<bPc, bAst, bOps, bOut, bBlocks, bRet>>
cVars == <<cPc, cDecls, cIdx, cModule, cLog>>
mVars == <<mPc, mAllocaTable, mValueTable, mTypes, mLast>>
tVars == <<tPc, tSrc, tStack, tBody>>
pfVars == <<pfPc, pfChildren, pfSuffixes, pfNode>>
vars == <<ppVars, drvVars, progVars, genVars, exVars, ifVars, asVars, bVars, cVars, mVars, tVars, pfVars>>
\* what the actions of one component leave alone
nonCompileVars == <<progVars, genVars, exVars, ifVars, asVars, bVars, cVars, mVars, tVars, pfVars>>
nonProgVars == <<ppVars, drvVars, genVars, exVars, ifVars, asVars, bVars, cVars, mVars, tVars, pfVars>>
nonGenVars == <<ppVars, drvVars, progVars, exVars, ifVars, asVars, bVars, cVars, mVars, tVars, pfVars>>
nonExVars == <<ppVars, drvVars, progVars, genVars, ifVars, asVars, bVars, cVars, mVars, tVars, pfVars>>
nonIfVars == <<ppVars, drvVars, progVars, genVars, exVars, asVars, bVars, cVars, mVars, tVars, pfVars>>
nonAsVars == <<ppVars, drvVars, progVars, genVars, exVars, ifVars, bVars, cVars, mVars, tVars, pfVars>>
nonBVars == <<ppVars, drvVars, progVars, genVars, exVars, ifVars, asVars, cVars, mVars, tVars, pfVars>>
nonCVars == <<ppVars, drvVars, progVars, genVars, exVars, ifVars, asVars, bVars, mVars, tVars, pfVars>>
nonMVars == <<ppVars, drvVars, progVars, genVars, exVars, ifVars, asVars, bVars, cVars, tVars, pfVars>>
nonTVars == <<ppVars, drvVars, progVars, genVars, exVars, ifVars, asVars, bVars, cVars, mVars, pfVars>>
nonPfVars == <<ppVars, drvVars, progVars, genVars, exVars, ifVars, asVars, bVars, cVars, mVars, tVars>>

(***************************************************************************)
(* Bounds of the model.                                                    *)
(***************************************************************************)
\* items (a stretch of text, a semicolon, or one directive) in all the source
\* files of one compilation together
MaxItems == 3

\* std::string::npos, the "not found" result of find
NPos == -1
\* the length of the searched literal `include "` in tokens (9 characters)
IncludeKwLen == 2

Min(S) == CHOOSE x \in S : \A y \in S : x <= y

(***************************************************************************)
(* Tokens and source files.                                                *)
(***************************************************************************)
Tok(k, f, i) == [k |-> k, f |-> f, i |-> i]
INC  == Tok("inc", "", 0)      \* the eight characters `include `
QUOTE == Tok("q", "", 0)       \* `"`
SEMI == Tok("semi", "", 0)     \* `;`
PathTok(p) == Tok("path", p, 0)    \* the characters of a relative path
TextTok(f, i) == Tok("t", f, i)    \* the i-th stretch of ordinary text of file f

\* The files that exist, by canonical path; RootFile is argv[1].
Files == {"a", "b", "c"}
\* What an include directive may name: a file, a second spelling of file b
\* (such as ./b or a symbolic link), or a path that does not exist.
PathNames == {"a", "b", "b2", "c", "m"}
NoFile == "?"

\* std::filesystem::canonical: defined on existing paths only
Exists(p) == p \in {"a", "b", "b2", "c"}
Canonical(p) == IF p = "b2" THEN "b" ELSE p

Directive(p)    == <<INC, QUOTE, PathTok(p), QUOTE, SEMI>>
Unterminated(p) == <<INC, QUOTE, PathTok(p), QUOTE>>
Unclosed        == <<INC, QUOTE>>

Items(f, i) ==
    {<<TextTok(f, i)>>, <<SEMI>>}
    \cup {Directive(p) : p \in PathNames}
    \cup {Unterminated(p) : p \in PathNames}
    \cup {Unclosed}

RECURSIVE ContentsOfLen(_, _)
ContentsOfLen(f, n) ==
    IF n = 0 THEN {<<>>}
    ELSE {c \o it : c \in ContentsOfLen(f, n - 1), it \in Items(f, n)}

\* What the first std::ifstream of a file can find there: the open fails, or
\* the file holds n items.
FileStates(f, n) ==
    IF n = -1 THEN {[st |-> "unreadable", text |-> <<>>]}
    ELSE {[st |-> "file", text |-> c] : c \in ContentsOfLen(f, n)}

(***************************************************************************)
(* std::string operations, positions counted from 0 as in C++.             *)
(***************************************************************************)
FindInclude(content, pos) ==
    LET hits == {i \in pos..(Len(content) - IncludeKwLen) :
                    content[i + 1].k = "inc" /\ content[i + 2].k = "q"}
    IN IF hits = {} THEN NPos ELSE Min(hits)

FindTok(content, k, pos) ==
    LET hits == {i \in pos..(Len(content) - 1) : content[i + 1].k = k}
    IN IF hits = {} THEN NPos ELSE Min(hits)

Substr(s, from, n) == SubSeq(s, from + 1, from + n)
SubstrFrom(s, from) == SubSeq(s, from + 1, Len(s))

\* include_file (a string) as a path of the file system
PathOf(include_file) ==
    IF Len(include_file) = 1 /\ include_file[1].k = "path"
    THEN include_file[1].f ELSE NoFile

CommentBegin(p) == Tok("cbegin", p, 0)   \* "// Included from: " + include_file + "\n"
CommentEnd(p)   == Tok("cend", p, 0)     \* "\n// End of: " + include_file + "\n"

\* The key under which a file is remembered in included_files.
SeenKeyRaw(filename) == filename
SeenKey(filename) == Canonical(filename)

Frame(filename, content) ==
    [filename |-> filename, content |-> content, result |-> <<>>,
     pos |-> 0, quote_end |-> 0, include_file |-> NoFile]

Top == ppStack[Len(ppStack)]
Pop == SubSeq(ppStack, 1, Len(ppStack) - 1)
ReplaceTop(fr) == [ppStack EXCEPT ![Len(ppStack)] = fr]

(***************************************************************************)
(* processIncludes, lines 748-772: entry of a call.                        *)
(***************************************************************************)
PPEnter ==
    /\ pc = "preprocess" /\ ppPhase = "call"
    /\ UNCHANGED nonCompileVars
    /\ UNCHANGED <<input, emit_llvm, verified, called, emitRet, outFile, exitCode>>
    /\ IF ~Exists(ppArg)
       THEN \* fs::canonical throws filesystem_error; the call in main is
            \* outside the try block, so std::terminate ends the process
            /\ ppPhase' = "terminated"
            /\ pc' = "aborted"
            /\ failure' = "read"
            /\ UNCHANGED <<fs, included_files, ppStack, ppArg, ppRet,
                           requested, retRepeat, diag, budget>>
       ELSE LET canon == Canonical(ppArg)
                key == SeenKey(ppArg)
            IN /\ requested' = requested \cup {canon}
               /\ ppArg' = NoFile
               /\ UNCHANGED <<pc, failure>>
               /\ IF key \in included_files
                  THEN /\ ppPhase' = "ret"
                       /\ ppRet' = <<>>
                       /\ retRepeat' = (canon \in requested)
                       /\ UNCHANGED <<fs, included_files, ppStack, diag, budget>>
                  ELSE /\ included_files' = included_files \cup {key}
                       /\ \E n \in -1..budget :
                          \E st \in (IF fs[canon].st = "unknown"
                                     THEN FileStates(canon, n) ELSE {fs[canon]}) :
                            /\ fs' = [fs EXCEPT ![canon] = st]
                            /\ budget' = IF fs[canon].st = "unknown" /\ n > 0
                                         THEN budget - n ELSE budget
                            /\ IF st.st = "unreadable"
                               THEN /\ diag' = diag + 1
                                    /\ ppPhase' = "ret"
                                    /\ ppRet' = <<>>
                                    /\ retRepeat' = (canon \in requested)
                                    /\ UNCHANGED ppStack
                               ELSE /\ ppStack' = Append(ppStack, Frame(ppArg, st.text))
                                    /\ ppPhase' = "scan"
                                    /\ UNCHANGED <<ppRet, retRepeat, diag>>

(***************************************************************************)
(* processIncludes, lines 776-788 and 804-805: one test of the while loop, *)
(* up to the recursive call or to the return.                              *)
(***************************************************************************)
\* line 800: where the scan goes on after a directive without a semicolon
ScanStay(fr, quote_end) == fr.pos
ScanAdvance(fr, quote_end) == quote_end

PPScan ==
    /\ pc = "preprocess" /\ ppPhase = "scan"
    /\ UNCHANGED nonCompileVars
    /\ UNCHANGED drvVars
    /\ UNCHANGED <<fs, included_files, requested, diag, budget>>
    /\ LET fr == Top
           pos == FindInclude(fr.content, fr.pos)
           quote_start == pos + IncludeKwLen
           quote_end == IF pos = NPos THEN NPos
                        ELSE FindTok(fr.content, "q", quote_start)
       IN IF pos = NPos \/ quote_end = NPos
          THEN /\ ppStack' = Pop
               /\ ppPhase' = "ret"
               /\ ppRet' = fr.result \o fr.content
               /\ retRepeat' = FALSE
               /\ UNCHANGED ppArg
          ELSE LET include_file == Substr(fr.content, quote_start, quote_end - quote_start)
               IN /\ ppStack' = ReplaceTop([fr EXCEPT !.pos = pos,
                                                       !.quote_end = quote_end,
                                                       !.include_file = PathOf(include_file)])
                  /\ ppArg' = PathOf(include_file)
                  /\ ppPhase' = "call"
                  /\ UNCHANGED <<ppRet, retRepeat>>

(***************************************************************************)
(* processIncludes, lines 790-801: after the recursive call returned.      *)
(***************************************************************************)
\* a splice that leaves the directive in the text in front of the contents
SpliceAfterDirective(fr, included_content, semicolon) ==
    [fr EXCEPT !.result = fr.result \o Substr(fr.content, 0, semicolon + 1)
                            \o <<CommentBegin(fr.include_file)>>
                            \o included_content
                            \o <<CommentEnd(fr.include_file)>>,
               !.content = SubstrFrom(fr.content, semicolon + 1),
               !.pos = 0, !.quote_end = 0, !.include_file = NoFile]

\* lines 792-798: the text before the directive, the two comment lines around
\* the contents of the file, and the scan restarted behind the semicolon
Splice(fr, included_content, semicolon) ==
    [fr EXCEPT !.result = fr.result \o Substr(fr.content, 0, fr.pos)
                            \o <<CommentBegin(fr.include_file)>>
                            \o included_content
                            \o <<CommentEnd(fr.include_file)>>,
               !.content = SubstrFrom(fr.content, semicolon + 1),
               !.pos = 0, !.quote_end = 0, !.include_file = NoFile]

\* a pass-through that keeps what the recursive call returned
PassThroughKeeping(fr, included_content) ==
    [fr EXCEPT !.result = fr.result \o included_content,
               !.pos = ScanAdvance(fr, fr.quote_end),
               !.quote_end = 0, !.include_file = NoFile]

\* lines 799-801: no semicolon behind the closing quote; included_content
\* is dropped and the scan goes on behind the quote
PassThrough(fr, included_content) ==
    [fr EXCEPT !.pos = ScanAdvance(fr, fr.quote_end),
               !.quote_end = 0, !.include_file = NoFile]

PPResume ==
    /\ pc = "preprocess" /\ ppPhase = "ret" /\ ppStack # <<>>
    /\ UNCHANGED nonCompileVars
    /\ UNCHANGED drvVars
    /\ UNCHANGED <<fs, included_files, requested, diag, budget, ppArg>>
    /\ LET fr == Top
           included_content == ppRet
           semicolon == FindTok(fr.content, "semi", fr.quote_end)
       IN /\ ppStack' = ReplaceTop(
                IF semicolon # NPos
                THEN Splice(fr, included_content, semicolon)
                ELSE PassThrough(fr, included_content))
          /\ ppPhase' = "scan"
          /\ ppRet' = <<>>
          /\ retRepeat' = FALSE

(***************************************************************************)
(* The driver: main.                                                       *)
(***************************************************************************)
RootNames == {"a", "m"}          \* argv[1]: a file that exists, or none

Exit(code, why) ==
    /\ pc' = "exit"
    /\ exitCode' = code
    /\ failure' = IF failure = "none" THEN why ELSE failure

\* lines 809-850: the usage check and the argument loop
Start ==
    /\ pc = "start"
    /\ UNCHANGED nonCompileVars
    /\ UNCHANGED <<fs, included_files, ppStack, ppRet, requested, retRepeat,
                   diag, budget>>
    /\ UNCHANGED <<input, emit_llvm, verified, called, emitRet, outFile>>
    /\ \E argc \in {1, 2} :
         IF argc < 2
         THEN /\ Exit(1, "usage")
              /\ UNCHANGED <<ppPhase, ppArg>>
         ELSE /\ \E root \in RootNames : ppArg' = root
              /\ ppPhase' = "call"
              /\ pc' = "preprocess"
              /\ UNCHANGED <<failure, exitCode>>

\* lines 854-859: the root call of processIncludes has returned
ReadInput ==
    /\ pc = "preprocess" /\ ppPhase = "ret" /\ ppStack = <<>>
    /\ UNCHANGED nonCompileVars
    /\ UNCHANGED <<included_files, ppStack, ppArg, diag>>
    /\ UNCHANGED <<emit_llvm, verified, called, emitRet, outFile>>
    \* no file is read after this point: the model forgets the file system
    /\ fs' = [f \in Files |-> [st |-> "unknown", text |-> <<>>]]
    /\ requested' = {}
    /\ budget' = 0
    /\ input' = ppRet
    /\ ppRet' = <<>>
    /\ retRepeat' = FALSE
    /\ ppPhase' = "done"
    /\ IF ppRet = <<>>
       THEN Exit(1, "read")
       ELSE /\ pc' = "parse"
            /\ UNCHANGED <<failure, exitCode>>

\* lines 861-880: lexer and parser (generated code, outside the repository);
\* a std::exception thrown inside the try block is caught at line 933
Parse ==
    /\ pc = "parse"
    /\ UNCHANGED nonCompileVars
    /\ UNCHANGED ppVars
    /\ UNCHANGED <<input, emit_llvm, verified, called, emitRet, outFile>>
    /\ \E r \in {"ok", "syntax_errors", "exception"} :
         IF r = "ok"
         THEN /\ pc' = "ast"
              /\ UNCHANGED <<failure, exitCode>>
         ELSE Exit(1, "syntax")

\* lines 882-892: visitProgram and popNode
BuildAST ==
    /\ pc = "ast"
    /\ UNCHANGED nonCompileVars
    /\ UNCHANGED ppVars
    /\ UNCHANGED <<input, emit_llvm, verified, called, emitRet, outFile>>
    /\ \E program_node \in {"node", "null"} :
         IF program_node = "null"
         THEN Exit(1, "ast")
         ELSE /\ pc' = "codegen"
              /\ UNCHANGED <<failure, exitCode>>

\* lines 894-909: Program::codegen, setTargetTriple, printIR
GenerateIR ==
    /\ pc = "codegen"
    /\ UNCHANGED nonCompileVars
    /\ UNCHANGED ppVars
    /\ UNCHANGED <<input, emit_llvm, verified, called, emitRet, outFile,
                   failure, exitCode>>
    /\ pc' = "verify"

\* What main does with the result of verifyModule (lines 912-915).
AfterVerifyIgnore(ok) == "emit"
AfterVerify(ok) == IF ok THEN "emit" ELSE "exit"

\* lines 911-915 and codegen.h 137-145: llvm::verifyModule decides
Verify ==
    /\ pc = "verify"
    /\ UNCHANGED nonCompileVars
    /\ UNCHANGED ppVars
    /\ UNCHANGED <<input, emit_llvm, called, emitRet, outFile>>
    /\ \E ok \in BOOLEAN :
         /\ verified' = IF ok THEN "ok" ELSE "failed"
         /\ IF AfterVerify(ok) = "exit"
            THEN Exit(1, "verify")
            ELSE /\ pc' = "emit"
                 /\ UNCHANGED <<failure, exitCode>>

\* codegen.h 128-132: the stream is opened and printed to; the error code of
\* the open is never read
OptimizeAndEmit(openOK) == IF openOK THEN "written" ELSE "untouched"

\* part_000 678-729: what emitObjectFile returns and what it leaves at the
\* output path. raw_fd_ostream creates or truncates the file when it opens it.
EmitObjectFile(targetFound, openOK, refused) ==
    IF ~targetFound THEN [ret |-> FALSE, file |-> "untouched"]
    ELSE IF ~openOK THEN [ret |-> FALSE, file |-> "untouched"]
    ELSE IF refused THEN [ret |-> FALSE, file |-> "truncated"]
    ELSE [ret |-> TRUE, file |-> "written"]

\* lines 917-938. emit_llvm is set by the argument loop (line 832) and read
\* here for the first time that matters; the model draws it here.
Emit ==
    /\ pc = "emit"
    /\ UNCHANGED nonCompileVars
    /\ UNCHANGED ppVars
    /\ UNCHANGED <<input, verified>>
    /\ \E el \in BOOLEAN : emit_llvm' = el
    /\ IF emit_llvm'
       THEN \E openOK \in BOOLEAN :
              /\ called' = called \cup {"optimizeAndEmit"}
              /\ outFile' = OptimizeAndEmit(openOK)
              /\ Exit(0, IF openOK THEN "none" ELSE "write")
              /\ UNCHANGED emitRet
       ELSE \E targetFound \in BOOLEAN, openOK \in BOOLEAN, refused \in BOOLEAN :
              LET r == EmitObjectFile(targetFound, openOK, refused)
              IN /\ called' = called \cup {"emitObjectFile"}
                 /\ outFile' = r.file
                 /\ emitRet' = IF r.ret THEN "true" ELSE "false"
                 /\ IF r.ret THEN Exit(0, "none") ELSE Exit(1, "write")

CompileInit ==
    /\ fs = [f \in Files |-> [st |-> "unknown", text |-> <<>>]]
    /\ included_files = {}
    /\ ppStack = <<>>
    /\ ppPhase = "idle"
    /\ ppArg = NoFile
    /\ ppRet = <<>>
    /\ requested = {}
    /\ retRepeat = FALSE
    /\ diag = 0
    /\ budget = MaxItems
    /\ pc = "start"
    /\ input = <<>>
    /\ emit_llvm = FALSE
    /\ verified = "none"
    /\ called = {}
    /\ emitRet = "none"
    /\ outFile = "untouched"
    /\ failure = "none"
    /\ exitCode = -1

(***************************************************************************)
(* The module builder: Program::codegen (part_000:14-37).                  *)
(***************************************************************************)
\* top-level declarations per program
MaxDecls == 4

DeclKinds == {"struct", "extern", "fn"}

RECURSIVE SeqsOfLen(_, _)
SeqsOfLen(S, n) ==
    IF n = 0 THEN {<<>>}
    ELSE {Append(q, x) : q \in SeqsOfLen(S, n - 1), x \in S}

\* the loops of Program::codegen in the order they are written
SweepAfterSwapped(s) ==
    IF s = "struct" THEN "fn" ELSE IF s = "fn" THEN "extern" ELSE "done"
SweepAfter(s) ==
    IF s = "struct" THEN "extern" ELSE IF s = "extern" THEN "fn" ELSE "done"

\* one pass of a loop whose dynamic_cast fails, or the end of a loop
SweepAdvance ==
    IF declIdx <= Len(declarations)
    THEN /\ declIdx' = declIdx + 1
         /\ UNCHANGED sweep
    ELSE /\ declIdx' = 1
         /\ sweep' = SweepAfter(sweep)

\* lines 16-20 and StructDecl::codegen (39-52)
StructSweep ==
    /\ sweep = "struct"
    /\ UNCHANGED nonProgVars
    /\ SweepAdvance
    /\ IF declIdx <= Len(declarations) /\ declarations[declIdx] = "struct"
       THEN /\ struct_types' = struct_types \cup {declIdx}
            /\ genLog' = Append(genLog, declIdx)
       ELSE UNCHANGED <<struct_types, genLog>>
    /\ UNCHANGED <<declarations, moduleFns>>

\* lines 23-27 and ExternDecl::codegen (128-145)
ExternSweep ==
    /\ sweep = "extern"
    /\ UNCHANGED nonProgVars
    /\ SweepAdvance
    /\ IF declIdx <= Len(declarations) /\ declarations[declIdx] = "extern"
       THEN /\ moduleFns' = Append(moduleFns, declIdx)
            /\ genLog' = Append(genLog, declIdx)
       ELSE UNCHANGED <<moduleFns, genLog>>
    /\ UNCHANGED <<declarations, struct_types>>

\* lines 30-34 and FunctionDecl::codegen (54-126); the generation of the
\* body is the subject of the function generator below
FunctionSweep ==
    /\ sweep = "fn"
    /\ UNCHANGED nonProgVars
    /\ SweepAdvance
    /\ IF declIdx <= Len(declarations) /\ declarations[declIdx] = "fn"
       THEN /\ moduleFns' = Append(moduleFns, declIdx)
            /\ genLog' = Append(genLog, declIdx)
       ELSE UNCHANGED <<moduleFns, genLog>>
    /\ UNCHANGED <<declarations, struct_types>>

ProgIdle ==
    /\ declarations = <<>>
    /\ sweep = "done"
    /\ declIdx = 1
    /\ struct_types = {}
    /\ moduleFns = <<>>
    /\ genLog = <<>>

ProgInit ==
    /\ declarations \in UNION {SeqsOfLen(DeclKinds, n) : n \in 0..MaxDecls}
    /\ sweep = "struct"
    /\ declIdx = 1
    /\ struct_types = {}
    /\ moduleFns = <<>>
    /\ genLog = <<>>


(***************************************************************************)
(* The function generator: FunctionDecl::codegen (part_000:54-126), the    *)
(* statement generators (147-270) and the scope stacks of CodeGenContext   *)
(* (codegen.h:26-83). The statements of a body are drawn one by one while  *)
(* the generator walks the body; an expression is a literal or an          *)
(* identifier, which is what decides whether its generator returns null.   *)
(***************************************************************************)
\* statements per function and nesting of if/while
MaxStmts == 3
MaxDepth == 2

\* "x" can be a parameter or a let variable; "y" is never declared
LetNames == {"x"}
Names == LetNames \cup {"y"}
ExprChoices == {[k |-> "lit", n |-> ""]} \cup {[k |-> "id", n |-> x] : x \in Names}
NoExpr == [k |-> "none", n |-> ""]

Instr(op, a, b) == [op |-> op, a |-> a, b |-> b]
IsTerminator(i) == i.op \in {"ret", "br", "condbr"}
Block(name, attached) == [name |-> name, insts |-> <<>>, attached |-> attached]
Task(t, d, b1, b2, must) == [t |-> t, d |-> d, b1 |-> b1, b2 |-> b2, must |-> must]

\* the generator state the helpers below transform
GenState ==
    [blocks |-> blocks, cur |-> cur, at |-> alloca_table, vt |-> value_table,
     na |-> nAlloca, ops |-> scopeOps]

SetGenState(g) ==
    /\ blocks' = g.blocks
    /\ cur' = g.cur
    /\ alloca_table' = g.at
    /\ value_table' = g.vt
    /\ nAlloca' = g.na
    /\ scopeOps' = g.ops

Front(q) == SubSeq(q, 1, Len(q) - 1)

\* codegen.h 45-48
EnterScope(g) ==
    [g EXCEPT !.at = Append(@, {}), !.vt = Append(@, {}), !.ops.enter = @ + 1]

\* codegen.h 50-53
ExitScopeAllocaOnly(g) ==
    [g EXCEPT !.at = Front(@), !.ops.exit = @ + 1]
ExitScope(g) ==
    [g EXCEPT !.at = Front(@), !.vt = Front(@), !.ops.exit = @ + 1]

\* map[name] = entry in one scope frame
Bind(frame, n, a) == {r \in frame : r.n # n} \cup {[n |-> n, a |-> a]}

\* a search that starts at the outermost frame
RECURSIVE LookupOuterFirst(_, _, _)
LookupOuterFirst(tbl, i, n) ==
    IF i = 0 THEN 0
    ELSE LET outer == LookupOuterFirst(tbl, i - 1, n)
         IN IF outer # 0 THEN outer
            ELSE IF \E r \in tbl[i] : r.n = n
                 THEN (CHOOSE r \in tbl[i] : r.n = n).a
                 ELSE 0

\* codegen.h 63-70 and 76-83: search inside-out; 0 stands for nullptr
RECURSIVE Lookup(_, _, _)
Lookup(tbl, i, n) ==
    IF i = 0 THEN 0
    ELSE IF \E r \in tbl[i] : r.n = n
         THEN (CHOOSE r \in tbl[i] : r.n = n).a
         ELSE Lookup(tbl, i - 1, n)
GetAlloca(g, n) == Lookup(g.at, Len(g.at), n)
GetValue(g, n) == Lookup(g.vt, Len(g.vt), n)

\* IRBuilder: append at the insertion point
EmitI(g, i) == [g EXCEPT !.blocks[g.cur].insts = Append(@, i)]

\* codegen.h 55-61: the alloca goes to the very beginning of the entry block
CreateAllocaAtCursor(g, n) ==
    [g EXCEPT !.blocks[g.cur].insts = Append(@, Instr("alloca", g.na + 1, 0)),
              !.at[Len(g.at)] = Bind(@, n, g.na + 1),
              !.na = @ + 1]
CreateAlloca(g, n) ==
    [g EXCEPT !.blocks[1].insts = <<Instr("alloca", g.na + 1, 0)>> \o @,
              !.at[Len(g.at)] = Bind(@, n, g.na + 1),
              !.na = @ + 1]

\* codegen.h 72-74
SetValue(g, n, v) == [g EXCEPT !.vt[Len(g.vt)] = Bind(@, n, v)]

\* BasicBlock::Create; the new block has the number Len(g.blocks) + 1
NewBlock(g, name, attached) == [g EXCEPT !.blocks = Append(@, Block(name, attached))]
InsertInto(g, b) == [g EXCEPT !.blocks[b].attached = TRUE]
SetInsertPoint(g, b) == [g EXCEPT !.cur = b]

\* BasicBlock::getTerminator: the last instruction, if it is a terminator
HasTerminator(g, b) ==
    LET is == g.blocks[b].insts
    IN is # <<>> /\ IsTerminator(is[Len(is)])

\* BasicBlock::hasNPredecessorsOrMore(1): some branch names the block
HasPredecessor(g, b) ==
    \E c \in 1..Len(g.blocks) : \E j \in 1..Len(g.blocks[c].insts) :
        LET i == g.blocks[c].insts[j]
        IN \/ i.op = "br" /\ i.a = b
           \/ i.op = "condbr" /\ (i.a = b \/ i.b = b)

\* part_000 273-296: literals yield a constant, an identifier a load from
\* its alloca or nullptr
ExprGen(g, e) ==
    IF e.k = "none" THEN [g |-> g, v |-> FALSE]
    ELSE IF e.k = "lit" THEN [g |-> g, v |-> TRUE]
    ELSE IF GetAlloca(g, e.n) # 0
         THEN [g |-> EmitI(g, Instr("load", GetAlloca(g, e.n), 0)), v |-> TRUE]
         ELSE [g |-> g, v |-> FALSE]

\* CreateBr unless the block of the insertion point already ends in a terminator
BranchAlways(g, target) == EmitI(g, Instr("br", target, 0))
BranchIfOpen(g, target) ==
    IF HasTerminator(g, g.cur) THEN g ELSE EmitI(g, Instr("br", target, 0))

TopTask == work[Len(work)]
Depth == Cardinality({i \in 1..Len(work) : work[i].t \in {"afterThen", "afterElse", "afterWhile"}})

\* the loop over a body is about to generate one more statement
AtStatement ==
    /\ genPc = "run" /\ work # <<>> /\ TopTask.t = "body"
    /\ stmtsLeft > 0

\* the work list once the statement drawn has been counted
Drawn == [work EXCEPT ![Len(work)].must = FALSE]

\* part_000 54-90: function, entry block, scope, parameters
GenStart ==
    /\ genPc = "start"
    /\ UNCHANGED nonGenVars
    /\ \E params \in {<<>>, <<"x">>} :
         LET g0 == EnterScope(SetInsertPoint(NewBlock(GenState, "entry", TRUE), 1))
             g1 == IF params = <<>> THEN g0
                   ELSE LET a == CreateAlloca(g0, params[1])
                        IN SetValue(EmitI(a, Instr("store", a.na, 0)), params[1], 1)
         IN SetGenState(g1)
    /\ work' = <<Task("afterFn", Len(alloca_table), 0, 0, FALSE),
                 Task("body", 0, 0, 0, FALSE)>>
    /\ genPc' = "run"
    /\ UNCHANGED <<fnRet, stmtsLeft>>

\* part_000 147-167
StmtLet ==
    /\ AtStatement
    /\ UNCHANGED nonGenVars
    /\ \E n \in LetNames, aggregate \in BOOLEAN, e \in ExprChoices :
         LET a == CreateAlloca(GenState, n)
             r == ExprGen(a, e)
         IN SetGenState(IF aggregate THEN EmitI(a, Instr("store", a.na, 0))
                        ELSE IF ~r.v THEN r.g
                        ELSE EmitI(r.g, Instr("store", a.na, 0)))
    /\ work' = Drawn
    /\ stmtsLeft' = stmtsLeft - 1
    /\ UNCHANGED <<genPc, fnRet>>

\* part_000 169-176: CreateRet(nullptr) builds a ret without operand
StmtReturn ==
    /\ AtStatement
    /\ UNCHANGED nonGenVars
    /\ \E e \in ExprChoices \cup {NoExpr} :
         LET r == ExprGen(GenState, e)
         IN SetGenState(EmitI(r.g, Instr("ret", IF r.v THEN 1 ELSE 0, 0)))
    /\ work' = Drawn
    /\ stmtsLeft' = stmtsLeft - 1
    /\ UNCHANGED <<genPc, fnRet>>

\* part_000 178-180
StmtExpr ==
    /\ AtStatement
    /\ UNCHANGED nonGenVars
    /\ \E e \in ExprChoices : SetGenState(ExprGen(GenState, e).g)
    /\ work' = Drawn
    /\ stmtsLeft' = stmtsLeft - 1
    /\ UNCHANGED <<genPc, fnRet>>

\* part_000 183-195: condition, the three blocks, the conditional branch, the
\* scope of the then arm. A null condition handed to CreateCondBr is outside
\* the builder's contract: the build either stops at an assertion or emits the
\* branch.
StmtIf ==
    /\ AtStatement /\ Depth < MaxDepth
    /\ UNCHANGED nonGenVars
    /\ \E e \in ExprChoices :
         LET r == ExprGen(GenState, e)
             then_block == Len(blocks) + 1
             else_block == Len(blocks) + 2
             merge_block == Len(blocks) + 3
             g1 == NewBlock(NewBlock(NewBlock(r.g, "then", TRUE), "else", FALSE),
                            "merge", FALSE)
             g2 == EmitI(g1, Instr("condbr", then_block, else_block))
         IN \E ends \in (IF r.v THEN {"run"} ELSE {"run", "crashed"}) :
              /\ genPc' = ends
              /\ IF ends = "crashed"
                 THEN /\ SetGenState(g1)
                      /\ work' = Drawn
                 ELSE /\ SetGenState(EnterScope(SetInsertPoint(g2, then_block)))
                      /\ work' = Drawn \o
                            <<Task("afterThen", Len(alloca_table), else_block, merge_block, FALSE),
                              Task("body", 0, 0, 0, FALSE)>>
    /\ stmtsLeft' = stmtsLeft - 1
    /\ UNCHANGED fnRet

\* part_000 226-232: attach the merge block or delete it
FinishMergeAlways(g, merge_block) ==
    SetInsertPoint(InsertInto(g, merge_block), merge_block)
FinishMerge(g, merge_block) ==
    IF HasPredecessor(g, merge_block)
    THEN SetInsertPoint(InsertInto(g, merge_block), merge_block)
    ELSE [g EXCEPT !.blocks[merge_block].name = "deleted"]

\* the for loop over a body finds no further statement
BodyEnd ==
    /\ genPc = "run" /\ work # <<>> /\ TopTask.t = "body" /\ ~TopTask.must
    /\ UNCHANGED nonGenVars
    /\ work' = Front(work)
    /\ UNCHANGED <<genPc, blocks, cur, alloca_table, value_table, nAlloca,
                   scopeOps, fnRet, stmtsLeft>>

\* part_000 199-223: end of the then arm; the else arm is entered, or, when
\* else_body is empty, the else block only branches to merge
AfterThen ==
    /\ genPc = "run" /\ work # <<>> /\ TopTask.t = "afterThen"
    /\ UNCHANGED nonGenVars
    /\ LET t == TopTask
           g1 == BranchIfOpen(ExitScope(GenState), t.b2)
           g2 == SetInsertPoint(InsertInto(g1, t.b1), t.b1)
       IN \E else_empty \in {e \in BOOLEAN : e \/ stmtsLeft > 0} :
            IF else_empty
            THEN /\ SetGenState(FinishMerge(EmitI(g2, Instr("br", t.b2, 0)), t.b2))
                 /\ work' = Front(work)
            ELSE /\ SetGenState(EnterScope(g2))
                 /\ work' = Front(work) \o
                       <<Task("afterElse", t.d, t.b1, t.b2, FALSE),
                         Task("body", 0, 0, 0, TRUE)>>
    /\ UNCHANGED <<genPc, fnRet, stmtsLeft>>

\* part_000 214-232: end of a non-empty else arm
AfterElse ==
    /\ genPc = "run" /\ work # <<>> /\ TopTask.t = "afterElse"
    /\ UNCHANGED nonGenVars
    /\ SetGenState(FinishMerge(BranchIfOpen(ExitScope(GenState), TopTask.b2), TopTask.b2))
    /\ work' = Front(work)
    /\ UNCHANGED <<genPc, fnRet, stmtsLeft>>

\* part_000 238-254
StmtWhile ==
    /\ AtStatement /\ Depth < MaxDepth
    /\ UNCHANGED nonGenVars
    /\ \E e \in ExprChoices :
         LET cond_block == Len(blocks) + 1
             body_block == Len(blocks) + 2
             end_block == Len(blocks) + 3
             g1 == NewBlock(NewBlock(NewBlock(GenState, "while_cond", TRUE),
                                     "while_body", TRUE), "while_end", TRUE)
             g2 == SetInsertPoint(EmitI(g1, Instr("br", cond_block, 0)), cond_block)
             r == ExprGen(g2, e)
             g3 == EmitI(r.g, Instr("condbr", body_block, end_block))
         IN \E ends \in (IF r.v THEN {"run"} ELSE {"run", "crashed"}) :
              /\ genPc' = ends
              /\ IF ends = "crashed"
                 THEN /\ SetGenState(r.g)
                      /\ work' = Drawn
                 ELSE /\ SetGenState(EnterScope(SetInsertPoint(g3, body_block)))
                      /\ work' = Drawn \o
                            <<Task("afterWhile", Len(alloca_table), cond_block, end_block, FALSE),
                              Task("body", 0, 0, 0, FALSE)>>
    /\ stmtsLeft' = stmtsLeft - 1
    /\ UNCHANGED fnRet

\* part_000 258-267
AfterWhile ==
    /\ genPc = "run" /\ work # <<>> /\ TopTask.t = "afterWhile"
    /\ UNCHANGED nonGenVars
    /\ SetGenState(SetInsertPoint(BranchIfOpen(ExitScope(GenState), TopTask.b1), TopTask.b2))
    /\ work' = Front(work)
    /\ UNCHANGED <<genPc, fnRet, stmtsLeft>>

\* ast.h 11-16
TypeKinds ==
    {"I1", "I8", "I16", "I32", "I64", "F16", "F32", "F64",
     "POINTER", "ARRAY", "STRUCT", "VOID"}

\* part_000 106-115: the kinds the switch gives a default_value
DefaultValueKinds == {"I1", "I8", "I16", "I32", "I64", "F32", "F64"}

\* part_000 99-119: the default return for a block left open
DefaultReturn(g, rt) ==
    IF HasTerminator(g, g.cur) THEN g
    ELSE IF rt = "VOID" THEN EmitI(g, Instr("ret", 0, 0))
    ELSE IF rt \in DefaultValueKinds THEN EmitI(g, Instr("ret", 1, 0))
    ELSE g

\* part_000 97-125. return_type belongs to the declaration; it is read here
\* for the first time and the model draws it here.
AfterFn ==
    /\ genPc = "run" /\ work # <<>> /\ TopTask.t = "afterFn"
    /\ UNCHANGED nonGenVars
    /\ \E rt \in TypeKinds :
         /\ fnRet' = rt
         /\ SetGenState(ExitScope(DefaultReturn(GenState, rt)))
    /\ work' = Front(work)
    /\ genPc' = "done"
    /\ UNCHANGED stmtsLeft

GenIdle ==
    /\ genPc = "idle"
    /\ blocks = <<>>
    /\ cur = 0
    /\ alloca_table = <<{}>>
    /\ value_table = <<{}>>
    /\ nAlloca = 0
    /\ scopeOps = [enter |-> 0, exit |-> 0]
    /\ work = <<>>
    /\ fnRet = "VOID"
    /\ stmtsLeft = 0

\* codegen.h 34-38: the constructor pushes the outermost scope
GenInit ==
    /\ genPc = "start"
    /\ blocks = <<>>
    /\ cur = 0
    /\ alloca_table = <<{}>>
    /\ value_table = <<{}>>
    /\ nAlloca = 0
    /\ scopeOps = [enter |-> 0, exit |-> 0]
    /\ work = <<>>
    /\ fnRet = "VOID"
    /\ stmtsLeft = MaxStmts

(***************************************************************************)
(* Binary expressions: the parse of a chain of operators (part_001         *)
(* 132-138), the AST builder's visitors (src/main.cpp 427-534) and         *)
(* BinaryExpr::codegen (part_000 298-376), for the body "return E;" of a   *)
(* function returning i32. An operand of E is an i32 parameter or an       *)
(* integer literal and stands here as the value it has in the call.        *)
(***************************************************************************)
\* operators in E
MaxOps == 2

ArgValues == {-7, 3, 2147483647}

MultiplicativeTokens == {"MULTIPLY", "DIVIDE", "MODULO"}
AdditiveTokens == {"PLUS", "MINUS"}
RelationalTokens == {"LESS", "GREATER", "LESS_EQUAL", "GREATER_EQUAL"}
EqualityTokens == {"EQUAL", "NOT_EQUAL"}
OperatorTokens ==
    MultiplicativeTokens \cup AdditiveTokens \cup RelationalTokens \cup EqualityTokens

Num(v) == [k |-> "num", o |-> "", v |-> v]
Op(o) == [k |-> "op", o |-> o, v |-> 0]
IsOpIn(t, S) == t.k = "op" /\ t.o \in S

OperatorsIn(toks) == Cardinality({i \in 1..Len(toks) : toks[i].k = "op"})

\* the parse of a rule  x : y (OP y)*  with OP in S: the operands y as token
\* sequences and the operator tokens between them
RECURSIVE SplitChain(_, _)
SplitChain(toks, S) ==
    IF \A i \in 1..Len(toks) : ~IsOpIn(toks[i], S)
    THEN [kids |-> <<toks>>, ops |-> <<>>]
    ELSE LET i == CHOOSE j \in 1..Len(toks) :
                      /\ IsOpIn(toks[j], S)
                      /\ \A m \in (j + 1)..Len(toks) : ~IsOpIn(toks[m], S)
             rest == SplitChain(SubSeq(toks, 1, i - 1), S)
         IN [kids |-> Append(rest.kids, SubSeq(toks, i + 1, Len(toks))),
             ops |-> Append(rest.ops, toks[i].o)]

\* ctx->TOKEN().empty() is false
Has(ctx, tok) == \E i \in 1..Len(ctx.ops) : ctx.ops[i] = tok

Atom(v) == <<"atom", v>>
BinaryExpr(op, left, right) == <<"bin", op, left, right>>

\* the loop of a visitor: every operand after the first becomes the right
\* child of a new BinaryExpr over what was built so far, all with one op
RECURSIVE FoldChain(_, _, _, _)
FoldChain(left_node, kids, i, op) ==
    IF i > Len(kids) THEN left_node
    ELSE FoldChain(BinaryExpr(op, left_node, kids[i]), kids, i + 1, op)

\* src/main.cpp 536-556 with 558-632: an operand without prefix operator
visitUnary_expr(toks) == Atom(toks[1].v)

\* src/main.cpp 507-534
visitMultiplicative_expr(toks) ==
    LET ctx == SplitChain(toks, MultiplicativeTokens)
        kids == [i \in 1..Len(ctx.kids) |-> visitUnary_expr(ctx.kids[i])]
        op == IF Has(ctx, "MULTIPLY") THEN "MUL"
              ELSE IF Has(ctx, "DIVIDE") THEN "DIV"
              ELSE IF Has(ctx, "MODULO") THEN "MOD" ELSE "MUL"
    IN IF Has(ctx, "MULTIPLY") \/ Has(ctx, "DIVIDE") \/ Has(ctx, "MODULO")
       THEN FoldChain(kids[1], kids, 2, op)
       ELSE kids[1]

\* src/main.cpp 482-505
visitAdditive_expr(toks) ==
    LET ctx == SplitChain(toks, AdditiveTokens)
        kids == [i \in 1..Len(ctx.kids) |-> visitMultiplicative_expr(ctx.kids[i])]
        op == IF Has(ctx, "PLUS") THEN "ADD" ELSE "SUB"
    IN IF Has(ctx, "PLUS") \/ Has(ctx, "MINUS")
       THEN FoldChain(kids[1], kids, 2, op)
       ELSE kids[1]

\* src/main.cpp 452-480
visitRelational_expr(toks) ==
    LET ctx == SplitChain(toks, RelationalTokens)
        kids == [i \in 1..Len(ctx.kids) |-> visitAdditive_expr(ctx.kids[i])]
        op == IF Has(ctx, "LESS") THEN "LT"
              ELSE IF Has(ctx, "GREATER") THEN "GT"
              ELSE IF Has(ctx, "LESS_EQUAL") THEN "LE"
              ELSE IF Has(ctx, "GREATER_EQUAL") THEN "GE" ELSE "LT"
    IN IF Has(ctx, "LESS") \/ Has(ctx, "GREATER")
          \/ Has(ctx, "LESS_EQUAL") \/ Has(ctx, "GREATER_EQUAL")
       THEN FoldChain(kids[1], kids, 2, op)
       ELSE kids[1]

\* src/main.cpp 427-450
visitEquality_expr(toks) ==
    LET ctx == SplitChain(toks, EqualityTokens)
        kids == [i \in 1..Len(ctx.kids) |-> visitRelational_expr(ctx.kids[i])]
        op == IF Has(ctx, "EQUAL") THEN "EQ" ELSE "NE"
    IN IF Has(ctx, "EQUAL") \/ Has(ctx, "NOT_EQUAL")
       THEN FoldChain(kids[1], kids, 2, op)
       ELSE kids[1]

\* ---- the instructions BinaryExpr::codegen selects, on 32-bit values ----
\* Values are kept in 16-bit limbs where a sum or a product could leave the
\* 32 bits.
Limb == 2^16
Byte == 2^8
MinInt32 == -(2^30) - 2^30
Lo(a) == a % Limb
Hi(a) == ((a - Lo(a)) \div Limb) % Limb
FromLimbs(h, l) ==
    IF h >= Limb \div 2 THEN (h - Limb) * Limb + l ELSE h * Limb + l

\* add i32
Add32(a, b) ==
    LET l == Lo(a) + Lo(b)
    IN FromLimbs((Hi(a) + Hi(b) + l \div Limb) % Limb, l % Limb)

\* sub i32
Sub32(a, b) ==
    LET l == Lo(a) - Lo(b) + Limb
    IN FromLimbs((Hi(a) - Hi(b) + Limb - (IF l < Limb THEN 1 ELSE 0)) % Limb, l % Limb)

\* the low and the high limb of the product of two limbs
MulLimbLo(x, y) == (x * (y % Byte) + ((x * (y \div Byte)) % Byte) * Byte) % Limb
MulLimbHi(x, y) ==
    LET p0 == x * (y % Byte)
        p1 == x * (y \div Byte)
    IN (p1 \div Byte) + (p0 + (p1 % Byte) * Byte) \div Limb

\* mul i32
Mul32(a, b) ==
    FromLimbs((MulLimbHi(Lo(a), Lo(b)) + MulLimbLo(Lo(a), Hi(b))
                 + MulLimbLo(Hi(a), Lo(b))) % Limb,
              MulLimbLo(Lo(a), Lo(b)))

\* sdiv i32 rounds toward zero; b is not 0 and the quotient is representable
TruncDiv(a, b) ==
    IF a >= 0 \/ a % b = 0 THEN a \div b ELSE (a \div b) + 1
SDiv32(a, b) ==
    IF b > 0 THEN TruncDiv(a, b)
    ELSE IF b = MinInt32 THEN (IF a = MinInt32 THEN 1 ELSE 0)
    ELSE 0 - TruncDiv(a, 0 - b)

\* srem i32
SRem32(a, b) == a - b * SDiv32(a, b)

Val(k, v) == [k |-> k, v |-> v]
Bit(b) == IF b THEN 1 ELSE 0

\* part_000 306-375 on two operand values. Operands of different type make
\* an instruction the verifier rejects ("bad"); sdiv and srem by zero or of
\* the minimum by -1 have no defined result ("undef"). The values of a
\* chain without parentheses reach an arithmetic instruction as i32 only.
BinaryOp(op, l, r) ==
    IF l.k \notin {"i32", "i1"} THEN l
    ELSE IF r.k \notin {"i32", "i1"} THEN r
    ELSE IF l.k # r.k THEN Val("bad", 0)
    ELSE IF op \in {"DIV", "MOD"} /\ (r.v = 0 \/ (l.v = MinInt32 /\ r.v = -1))
         THEN Val("undef", 0)
    ELSE CASE op = "ADD" /\ l.k = "i32" -> Val("i32", Add32(l.v, r.v))
           [] op = "SUB" /\ l.k = "i32" -> Val("i32", Sub32(l.v, r.v))
           [] op = "MUL" /\ l.k = "i32" -> Val("i32", Mul32(l.v, r.v))
           [] op = "DIV" /\ l.k = "i32" -> Val("i32", SDiv32(l.v, r.v))
           [] op = "MOD" /\ l.k = "i32" -> Val("i32", SRem32(l.v, r.v))
           [] op = "EQ" -> Val("i1", Bit(l.v = r.v))
           [] op = "NE" -> Val("i1", Bit(l.v # r.v))
           [] op = "LT" -> Val("i1", Bit(l.v < r.v))
           [] op = "GT" -> Val("i1", Bit(l.v > r.v))
           [] op = "LE" -> Val("i1", Bit(l.v <= r.v))
           [] op = "GE" -> Val("i1", Bit(l.v >= r.v))

\* part_000 298-304: left operand, right operand, then the instruction
RECURSIVE ExprValue(_)
ExprValue(t) ==
    IF t[1] = "atom" THEN Val("i32", t[2])
    ELSE BinaryOp(t[2], ExprValue(t[3]), ExprValue(t[4]))

\* the source of E: operand (operator operand)*, part_001 132-146
SourceOperand ==
    /\ exPc = "source"
    /\ IF exToks = <<>> THEN TRUE ELSE exToks[Len(exToks)].k = "op"
    /\ UNCHANGED nonExVars
    /\ \E v \in ArgValues : exToks' = Append(exToks, Num(v))
    /\ UNCHANGED <<exPc, exAst, exRet>>

SourceOperator ==
    /\ exPc = "source"
    /\ exToks # <<>> /\ exToks[Len(exToks)].k = "num"
    /\ OperatorsIn(exToks) < MaxOps
    /\ UNCHANGED nonExVars
    /\ \E o \in OperatorTokens : exToks' = Append(exToks, Op(o))
    /\ UNCHANGED <<exPc, exAst, exRet>>

\* ASTVisitor on the expression of the return statement
BuildExprAST ==
    /\ exPc = "source"
    /\ exToks # <<>> /\ exToks[Len(exToks)].k = "num"
    /\ UNCHANGED nonExVars
    /\ exAst' = visitEquality_expr(exToks)
    /\ exPc' = "ast"
    /\ UNCHANGED <<exToks, exRet>>

\* part_000 169-176 in a function declared -> i32, then codegen.h 137-145: a
\* ret whose operand is not an i32 fails verification and no f is emitted
ReturnExpr ==
    /\ exPc = "ast"
    /\ UNCHANGED nonExVars
    /\ LET r == ExprValue(exAst)
       IN exRet' = IF r.k \in {"i32", "undef"} THEN r ELSE Val("rejected", 0)
    /\ exPc' = "returned"
    /\ UNCHANGED <<exToks, exAst>>

ExprIdle ==
    /\ exPc = "idle"
    /\ exToks = <<>>
    /\ exAst = <<>>
    /\ exRet = Val("none", 0)

ExprInit ==
    /\ exPc = "source"
    /\ exToks = <<>>
    /\ exAst = <<>>
    /\ exRet = Val("none", 0)

(***************************************************************************)
(* The AST builder on an if statement: ASTVisitor::visitIf_statement       *)
(* (src/main.cpp 288-338) on the parse of                                  *)
(*   if_statement : IF expression LBRACE statement* RBRACE                 *)
(*                  (ELSE LBRACE statement* RBRACE)? ;                     *)
(* (part_001 118). The children of the context are its own tokens and one  *)
(* context per expression and statement; the braces of a nested if or      *)
(* while are children of that statement's context.                         *)
(***************************************************************************)
\* statements in one brace pair
MaxBody == 2

StmtKinds == {"let", "if", "while", "block"}
Terminal(t) == [k |-> "tok", t |-> t, id |-> 0]
ExpressionCtx == [k |-> "expr", t |-> "", id |-> 0]
StatementCtx(t, id) == [k |-> "stmt", t |-> t, id |-> id]

\* ctx->statement()
all_statements(cs) == SelectSeq(cs, LAMBDA c : c.k = "stmt")
\* ctx->ELSE()
HasElse(cs) == \E i \in 1..Len(cs) : cs[i] = Terminal("ELSE")
StatementsBefore(cs, i) == Cardinality({j \in 1..(i - 1) : cs[j].k = "stmt"})

\* a child whose text holds a closing brace
HoldsRBrace(c) == c = Terminal("RBRACE") \/ (c.k = "stmt" /\ c.t \in {"if", "while", "block"})

\* src/main.cpp 296-320: the number of statement children before the first
\* RBRACE that is a terminal child of the context
ElsePosByText(cs) ==
    IF HasElse(cs) /\ \E i \in 1..Len(cs) : HoldsRBrace(cs[i])
    THEN StatementsBefore(cs, Min({i \in 1..Len(cs) : HoldsRBrace(cs[i])}))
    ELSE Len(all_statements(cs))
ElsePos(cs) ==
    IF HasElse(cs) /\ \E i \in 1..Len(cs) : cs[i] = Terminal("RBRACE")
    THEN StatementsBefore(cs, Min({i \in 1..Len(cs) : cs[i] = Terminal("RBRACE")}))
    ELSE Len(all_statements(cs))

StatementsWritten == Len(all_statements(children))

\* the source, child by child
IfSourceStatement ==
    /\ ifPc \in {"then", "else"}
    /\ Len(IF ifPc = "then" THEN srcThen ELSE srcElse) < MaxBody
    /\ UNCHANGED nonIfVars
    /\ \E t \in StmtKinds :
         LET st == StatementCtx(t, StatementsWritten + 1)
         IN /\ children' = Append(children, st)
            /\ IF ifPc = "then"
               THEN srcThen' = Append(srcThen, st) /\ UNCHANGED srcElse
               ELSE srcElse' = Append(srcElse, st) /\ UNCHANGED srcThen
    /\ UNCHANGED <<ifPc, then_body, else_body>>

IfSourceCloseThen ==
    /\ ifPc = "then"
    /\ UNCHANGED nonIfVars
    /\ \E has_else \in BOOLEAN :
         IF has_else
         THEN /\ children' = children \o
                    <<Terminal("RBRACE"), Terminal("ELSE"), Terminal("LBRACE")>>
              /\ ifPc' = "else"
         ELSE /\ children' = Append(children, Terminal("RBRACE"))
              /\ ifPc' = "closed"
    /\ UNCHANGED <<srcThen, srcElse, then_body, else_body>>

IfSourceCloseElse ==
    /\ ifPc = "else"
    /\ UNCHANGED nonIfVars
    /\ children' = Append(children, Terminal("RBRACE"))
    /\ ifPc' = "closed"
    /\ UNCHANGED <<srcThen, srcElse, then_body, else_body>>

\* src/main.cpp 288-338
visitIf_statement ==
    /\ ifPc = "closed"
    /\ UNCHANGED nonIfVars
    /\ LET all == all_statements(children)
           else_pos == ElsePos(children)
       IN /\ then_body' = SubSeq(all, 1, else_pos)
          /\ else_body' = SubSeq(all, else_pos + 1, Len(all))
    /\ ifPc' = "built"
    /\ UNCHANGED <<children, srcThen, srcElse>>

IfIdle ==
    /\ ifPc = "idle"
    /\ children = <<>>
    /\ srcThen = <<>>
    /\ srcElse = <<>>
    /\ then_body = <<>>
    /\ else_body = <<>>

IfInit ==
    /\ ifPc = "then"
    /\ children = <<Terminal("IF"), ExpressionCtx, Terminal("LBRACE")>>
    /\ srcThen = <<>>
    /\ srcElse = <<>>
    /\ then_body = <<>>
    /\ else_body = <<>>

(***************************************************************************)
(* Assignments to and reads of local variables: one function body that     *)
(* declares a struct P and the locals                                      *)
(*     let s: i32;  let p: P;  let a: array[2] i32;  let q: array[2] P;      *)
(* and then generates (and runs) assignment and access expressions.        *)
(***************************************************************************)
MaxAccesses == 2

\* the member names a program may write, and the declarations of P drawn
Members == {"x", "y", "z", "w"}
FieldLists == {<<"x", "y", "z">>, <<"x", "y">>, <<"z", "w">>}

LocalNames == {"s", "p", "a", "q"}
AllNames == LocalNames \cup {"u"}          \* "u" is bound nowhere

\* index expressions: the integer literals inside an array of two
Indices == {0, 1}
RhsValues == {3}
Null == -1                                  \* an expression that generates no value
Aggregate == -2                             \* a loaded value of aggregate type

\* the allocated type of a local (alloca->getAllocatedType())
LocalType(n) ==
    CASE n = "s" -> [k |-> "i32", elem |-> ""]
      [] n = "p" -> [k |-> "struct", elem |-> ""]
      [] n = "a" -> [k |-> "array", elem |-> "i32"]
      [] n = "q" -> [k |-> "array", elem |-> "struct"]
      [] OTHER -> [k |-> "none", elem |-> ""]

\* ctx.getAlloca(name) != nullptr
HasAlloca(n) == n \in LocalNames
isArrayTy(n) == LocalType(n).k = "array"
isStructTy(n) == LocalType(n).k = "struct"
ElementIsStruct(n) == LocalType(n).elem = "struct"

\* the memory cells of the locals, by <<name, element, field index>>
Slots(fl) ==
    {<<"s", 0, 0>>}
    \cup {<<"p", 0, f>> : f \in 0..(Len(fl) - 1)}
    \cup {<<"a", i, 0>> : i \in Indices}
    \cup {<<"q", i, f>> : i \in Indices, f \in 0..(Len(fl) - 1)}

NoTarget == <<"", 0, 0>>

\* an expression of the AST, by the shape the generator's casts tell apart
AccessExpr(shape, n, i, m) == [shape |-> shape, n |-> n, i |-> i, m |-> m]

AccessExprs ==
    {AccessExpr("Identifier", n, 0, "") : n \in {"s", "p", "u"}}
    \cup {AccessExpr("ArrayAccess", n, i, "") : n \in {"a", "s", "u"}, i \in Indices}
    \cup {AccessExpr("MemberAccess", "p", 0, m) : m \in Members}
    \cup {AccessExpr("MemberAccess", n, 0, "x") : n \in {"s", "u"}}
    \cup {AccessExpr("MemberOfArray", "q", i, m) : i \in Indices, m \in Members}
    \cup {AccessExpr("MemberOfArray", "a", 0, "x")}
    \cup {AccessExpr("MemberOfMember", "p", 0, "y")}       \* p.x.y
    \cup {AccessExpr("IndexOfIndex", "a", 0, "")}          \* a[0][0]
    \cup {AccessExpr("Deref", "s", 0, "")}                 \* *s
    \cup {AccessExpr("Call", "f", 0, "")}                  \* f()

\* what generating one expression comes to: the value returned ("null", "rhs"
\* or "load"), the instructions emitted, the cell the last one addresses, and
\* whether a struct field address was built with an index the struct lacks
Gen(ret, instrs, target, bad) ==
    [ret |-> ret, instrs |-> instrs, target |-> target, bad |-> bad]

IR(op, a) == [op |-> op, a |-> a]

NullGen(instrs) == Gen("null", instrs, NoTarget, FALSE)

\* the member table by the declaration of the struct
MemberIdxDeclared(m, fl) ==
    IF \E k \in 1..Len(fl) : fl[k] = m
    THEN (CHOOSE k \in 1..Len(fl) : fl[k] = m) - 1
    ELSE -1

\* the fixed member table: x -> 0, y -> 1, z -> 2, anything else fails
MemberIdx(m, fl) ==
    CASE m = "x" -> 0
      [] m = "y" -> 1
      [] m = "z" -> 2
      [] OTHER -> -1

\* AssignmentExpr::codegen with a right side that generated right_value
AssignmentExpr_codegen(e, right_value, fl) ==
    IF right_value = Null THEN NullGen(<<>>)
    ELSE IF e.shape = "Identifier" /\ HasAlloca(e.n)
    THEN Gen("rhs", <<IR("store", 0)>>, <<e.n, 0, 0>>, FALSE)
    ELSE IF e.shape = "ArrayAccess" /\ HasAlloca(e.n) /\ isArrayTy(e.n)
    THEN Gen("rhs", <<IR("gep", e.i), IR("store", 0)>>, <<e.n, e.i, 0>>, FALSE)
    ELSE IF e.shape = "MemberAccess" /\ HasAlloca(e.n) /\ isStructTy(e.n)
    THEN LET member_idx == MemberIdx(e.m, fl)
         IN IF member_idx = -1 THEN NullGen(<<>>)
            ELSE Gen("rhs", <<IR("structgep", member_idx), IR("store", 0)>>,
                     <<e.n, 0, member_idx>>, member_idx >= Len(fl))
    ELSE IF e.shape = "MemberOfArray" /\ HasAlloca(e.n) /\ isArrayTy(e.n)
    THEN IF ElementIsStruct(e.n)
         THEN LET member_idx == MemberIdx(e.m, fl)
              IN IF member_idx = -1 THEN NullGen(<<IR("gep", e.i)>>)
                 ELSE Gen("rhs", <<IR("gep", e.i), IR("structgep", member_idx),
                                   IR("store", 0)>>,
                          <<e.n, e.i, member_idx>>, member_idx >= Len(fl))
         ELSE NullGen(<<IR("gep", e.i)>>)
    ELSE NullGen(<<>>)

\* Identifier::codegen
Identifier_codegen(n) ==
    IF HasAlloca(n)
    THEN Gen("load", <<IR("load", 0)>>, <<n, 0, 0>>, FALSE)
    ELSE NullGen(<<>>)

\* ArrayAccess::codegen of n[i]
ArrayAccess_codegen(n, i) ==
    IF HasAlloca(n) /\ isArrayTy(n)
    THEN Gen("load", <<IR("gep", i), IR("load", 0)>>, <<n, i, 0>>, FALSE)
    ELSE NullGen(<<>>)

\* MemberAccess::codegen of n.m : the alloca path, then the generic path
\* (a local has no SSA value, and a loaded i32 is no struct)
MemberOfIdentifier(n, m, fl) ==
    IF HasAlloca(n) /\ isStructTy(n)
    THEN LET member_idx == MemberIdx(m, fl)
         IN IF member_idx = -1 THEN NullGen(<<>>)
            ELSE Gen("load", <<IR("structgep", member_idx), IR("load", 0)>>,
                     <<n, 0, member_idx>>, member_idx >= Len(fl))
    ELSE NullGen(Identifier_codegen(n).instrs)

\* MemberAccess::codegen of n[i].m
MemberOfArrayAccess(n, i, m, fl) ==
    IF HasAlloca(n) /\ isArrayTy(n)
    THEN IF ElementIsStruct(n)
         THEN LET member_idx == MemberIdx(m, fl)
              IN IF member_idx = -1 THEN NullGen(<<IR("gep", i)>>)
                 ELSE Gen("load", <<IR("gep", i), IR("structgep", member_idx),
                                    IR("load", 0)>>,
                          <<n, i, member_idx>>, member_idx >= Len(fl))
         ELSE NullGen(<<IR("gep", i)>> \o ArrayAccess_codegen(n, i).instrs)
    ELSE NullGen(ArrayAccess_codegen(n, i).instrs)

\* MemberAccess::codegen by the shape of its object
MemberAccess_codegen(e, fl) ==
    CASE e.shape = "MemberAccess" -> MemberOfIdentifier(e.n, e.m, fl)
      [] e.shape = "MemberOfArray" -> MemberOfArrayAccess(e.n, e.i, e.m, fl)
      [] OTHER ->          \* n.x.m : the object n.x is generated, an i32 at best
           LET object_val == MemberOfIdentifier(e.n, "x", fl)
           IN Gen("null", object_val.instrs, NoTarget, object_val.bad)

\* the expressions whose codegen is modelled as a read
ReadExprs ==
    {e \in AccessExprs : e.shape \in {"Identifier", "ArrayAccess", "MemberAccess",
                                      "MemberOfArray", "MemberOfMember",
                                      "IndexOfIndex"}}

Read_codegen(e, fl) ==
    CASE e.shape = "Identifier" -> Identifier_codegen(e.n)
      [] e.shape = "ArrayAccess" -> ArrayAccess_codegen(e.n, e.i)
      [] e.shape = "IndexOfIndex" -> NullGen(<<>>)
      [] OTHER -> MemberAccess_codegen(e, fl)

\* how an access ends: "ok" when it addresses a cell of its object; when the
\* struct field address names a field the struct lacks the behaviour is
\* undefined: the process stops, or the access lands on nothing, or on any cell
Effects(g, fl) ==
    IF g.bad \/ (g.target # NoTarget /\ g.target \notin Slots(fl))
    THEN {"crash", "lost", "stray"}
    ELSE {"ok"}

Stores(instrs) == Cardinality({k \in 1..Len(instrs) : instrs[k].op = "store"})

Declared(m, fl) == \E k \in 1..Len(fl) : fl[k] = m

\* the source locations of the locals: s, a[i] in bounds, p.m and q[i].m
\* with m a field P declares
IsLocation(e, fl) ==
    \/ e.shape = "Identifier" /\ e.n = "s"
    \/ e.shape = "ArrayAccess" /\ e.n = "a" /\ e.i \in Indices
    \/ e.shape = "MemberAccess" /\ e.n = "p" /\ Declared(e.m, fl)
    \/ e.shape = "MemberOfArray" /\ e.n = "q" /\ e.i \in Indices
                                 /\ Declared(e.m, fl)

Locations(fl) == {e \in AccessExprs : IsLocation(e, fl)}

\* whether a load of the expression yields a scalar
LoadsScalar(e) ==
    CASE e.shape = "Identifier" -> e.n = "s"
      [] e.shape = "ArrayAccess" -> ~ElementIsStruct(e.n)
      [] OTHER -> TRUE

Statement(op, e, rv, ret, v, instrs) ==
    [op |-> op, e |-> e, rv |-> rv, ret |-> ret, v |-> v, instrs |-> instrs]

NoStatement == Statement("none", AccessExpr("Call", "f", 0, ""), Null, "none",
                         Null, <<>>)

\* StructDecl::codegen and the LetStmt of every local: scalars are
\* initialised with 0 here, aggregates are always zero-initialised
LetLocals ==
    /\ asPc = "decl"
    /\ UNCHANGED nonAsVars
    /\ \E fl \in FieldLists :
         /\ fields' = fl
         /\ mem' = [c \in Slots(fl) |-> 0]
         /\ shadow' = [e \in Locations(fl) |-> 0]
    /\ asPc' = "run"
    /\ UNCHANGED <<clean, last, accesses>>

\* an expression statement `lhs = rhs;`, generated and then run
AssignStmt ==
    /\ asPc = "run"
    /\ accesses < MaxAccesses
    /\ UNCHANGED nonAsVars
    /\ \E e \in AccessExprs, rv \in RhsValues \cup {Null} :
         LET g == AssignmentExpr_codegen(e, rv, fields)
         IN \E how \in Effects(g, fields) :
              /\ asPc' = IF how = "crash" THEN "crashed" ELSE "run"
              /\ IF how = "ok"
                 THEN mem' = IF g.target = NoTarget THEN mem
                             ELSE [mem EXCEPT ![g.target] = rv]
                 ELSE IF how = "stray"
                 THEN \E c \in Slots(fields) : mem' = [mem EXCEPT ![c] = rv]
                 ELSE mem' = mem
              /\ last' = Statement("assign", e, rv,
                                   IF how = "crash" THEN "none" ELSE g.ret,
                                   IF how # "crash" /\ g.ret = "rhs" THEN rv ELSE Null,
                                   g.instrs)
              /\ shadow' = IF rv # Null /\ IsLocation(e, fields)
                           THEN [shadow EXCEPT ![e] = rv] ELSE shadow
              /\ clean' = (clean /\ (Stores(g.instrs) = 0 \/ IsLocation(e, fields)))
    /\ accesses' = accesses + 1
    /\ UNCHANGED fields

\* an expression statement that reads a variable, an element or a member,
\* generated and then run
ReadStmt ==
    /\ asPc = "run"
    /\ accesses < MaxAccesses
    /\ UNCHANGED nonAsVars
    /\ \E e \in ReadExprs :
         LET g == Read_codegen(e, fields)
         IN \E how \in Effects(g, fields) \ {"lost"} :
              /\ asPc' = IF how = "crash" THEN "crashed" ELSE "run"
              /\ \E v \in (IF how = "crash" \/ g.ret = "null" THEN {Null}
                           ELSE IF how = "stray" THEN RhsValues \cup {0}
                           ELSE IF LoadsScalar(e) THEN {mem[g.target]}
                           ELSE {Aggregate}) :
                   last' = Statement("read", e, Null,
                                     IF how = "crash" THEN "none" ELSE g.ret,
                                     v, g.instrs)
    /\ accesses' = accesses + 1
    /\ UNCHANGED <<fields, mem, shadow, clean>>

AsIdle ==
    /\ asPc = "idle"
    /\ fields = <<>>
    /\ mem = <<>>
    /\ shadow = <<>>
    /\ clean = TRUE
    /\ last = NoStatement
    /\ accesses = 0

AsInit ==
    /\ asPc = "decl"
    /\ fields = <<>>
    /\ mem = <<>>
    /\ shadow = <<>>
    /\ clean = TRUE
    /\ last = NoStatement
    /\ accesses = 0

(***************************************************************************)
(* The code of one binary expression: BinaryExpr::codegen (part_000        *)
(* 298-376) over operands that are calls, assignments, loads of a bound    *)
(* name, or an unbound name whose generator returns null.                  *)
(***************************************************************************)
MaxBinOps == 2

OperandKinds == {"call", "assign", "load", "unbound"}
BinOps == {"ADD", "LT", "AND", "OR"}

Operand(k) == [k |-> k]
Binary(op, left, right) == [k |-> "bin", op |-> op, left |-> left, right |-> right]

Emitted(op, at) == [op |-> op, at |-> at]

\* the instruction the switch creates for an operator on integers
BinaryInstr(op) ==
    CASE op = "ADD" -> "add"
      [] op = "LT" -> "icmp"
      [] op = "AND" -> "and"
      [] op = "OR" -> "or"

\* the code of an operand: a call (CallExpr::codegen of a declared callee),
\* the store of an assignment, the load of a bound name, nothing for an
\* unbound name
Operand_codegen(node, at) ==
    CASE node.k = "call" -> [out |-> <<Emitted("call", at)>>, v |-> TRUE]
      [] node.k = "assign" -> [out |-> <<Emitted("store", at)>>, v |-> TRUE]
      [] node.k = "load" -> [out |-> <<Emitted("load", at)>>, v |-> TRUE]
      [] OTHER -> [out |-> <<>>, v |-> FALSE]

\* a generator that leaves the right operand of && and || out when the left
\* one has no value
RECURSIVE BinaryExprShortCircuit(_, _)
BinaryExprShortCircuit(node, at) ==
    IF node.k # "bin" THEN Operand_codegen(node, at)
    ELSE LET left_value == BinaryExprShortCircuit(node.left, Append(at, 0))
         IN IF node.op \in {"AND", "OR"} /\ ~left_value.v
            THEN [out |-> left_value.out, v |-> FALSE]
            ELSE LET right_value == BinaryExprShortCircuit(node.right, Append(at, 1))
                 IN IF left_value.v /\ right_value.v
                    THEN [out |-> left_value.out \o right_value.out
                                    \o <<Emitted(BinaryInstr(node.op), at)>>,
                          v |-> TRUE]
                    ELSE [out |-> left_value.out \o right_value.out, v |-> FALSE]

\* part_000 298-376: left, then right, then the instruction of the operator
\* unless an operand is null
RECURSIVE BinaryExpr_codegen(_, _)
BinaryExpr_codegen(node, at) ==
    IF node.k # "bin" THEN Operand_codegen(node, at)
    ELSE LET left_value == BinaryExpr_codegen(node.left, Append(at, 0))
             right_value == BinaryExpr_codegen(node.right, Append(at, 1))
         IN IF left_value.v /\ right_value.v
            THEN [out |-> left_value.out \o right_value.out
                            \o <<Emitted(BinaryInstr(node.op), at)>>,
                  v |-> TRUE]
            ELSE [out |-> left_value.out \o right_value.out, v |-> FALSE]

\* the source gives the first operand
BinSourceOperand ==
    /\ bPc = "source" /\ bAst.k = "none"
    /\ UNCHANGED nonBVars
    /\ \E k \in OperandKinds : bAst' = Operand(k)
    /\ UNCHANGED <<bPc, bOps, bOut, bBlocks, bRet>>

\* the source puts an operator and a further operand to the right of the
\* expression, or to the left of it in parentheses
BinSourceOperator ==
    /\ bPc = "source" /\ bAst.k # "none" /\ bOps < MaxBinOps
    /\ UNCHANGED nonBVars
    /\ \E op \in BinOps, k \in OperandKinds, on_right \in BOOLEAN :
         bAst' = IF on_right THEN Binary(op, bAst, Operand(k))
                 ELSE Binary(op, Operand(k), bAst)
    /\ bOps' = bOps + 1
    /\ UNCHANGED <<bPc, bOut, bBlocks, bRet>>

\* the expression statement is generated
BinGenerate ==
    /\ bPc = "source" /\ bAst.k = "bin"
    /\ UNCHANGED nonBVars
    /\ LET r == BinaryExpr_codegen(bAst, <<>>)
       IN /\ bOut' = r.out
          /\ bRet' = r.v
    /\ bPc' = "generated"
    /\ UNCHANGED <<bAst, bOps, bBlocks>>

BinIdle ==
    /\ bPc = "idle"
    /\ bAst = [k |-> "none"]
    /\ bOps = 0
    /\ bOut = <<>>
    /\ bBlocks = 1
    /\ bRet = FALSE

BinInit ==
    /\ bPc = "source"
    /\ bAst = [k |-> "none"]
    /\ bOps = 0
    /\ bOut = <<>>
    /\ bBlocks = 1
    /\ bRet = FALSE

(***************************************************************************)
(* Calls between the declarations of a program: Program::codegen           *)
(* (part_000:14-37), ExternDecl::codegen (128-145), FunctionDecl::codegen  *)
(* (54-126) and CallExpr::codegen (531-548). Every function has one        *)
(* parameter p and a body of one statement, a call whose argument, when it *)
(* has one, is the identifier p.                                           *)
(***************************************************************************)
MaxCallDecls == 3

FnNames == {"f", "g"}
CalleeNames == {"f", "g", "u"}      \* no declaration is named u
ArgKinds == {"none", "p"}

ExternDeclOf(n) == [kind |-> "extern", name |-> n, callee |-> "", arg |-> "none"]
FunctionDeclOf(n, c, a) == [kind |-> "fn", name |-> n, callee |-> c, arg |-> a]

\* a module in which every function of the program is declared beforehand
FunctionCreateAll(module, decls, i) ==
    module \cup {decls[j].name : j \in {k \in 1..Len(decls) : decls[k].kind = "fn"}}

\* llvm::Function::Create(func_type, linkage, name, ctx.getModule())
FunctionCreate(module, decls, i) == module \cup {decls[i].name}

\* CallExpr::codegen: the lookup, then the arguments in order, then the call
CallExpr_codegen(module, d) ==
    IF d.callee \notin module
    THEN [v |-> FALSE, out |-> <<>>]
    ELSE [v |-> TRUE,
          out |-> (IF d.arg = "p" THEN <<[op |-> "load", n |-> "p"]>> ELSE <<>>)
                    \o <<[op |-> "call", n |-> d.callee]>>]

\* the parser appends a declaration
CallSourceExtern ==
    /\ cPc = "source" /\ Len(cDecls) < MaxCallDecls
    /\ UNCHANGED nonCVars
    /\ \E n \in FnNames : cDecls' = Append(cDecls, ExternDeclOf(n))
    /\ UNCHANGED <<cPc, cIdx, cModule, cLog>>

CallSourceFunction ==
    /\ cPc = "source" /\ Len(cDecls) < MaxCallDecls
    /\ UNCHANGED nonCVars
    /\ \E n \in FnNames, c \in CalleeNames, a \in ArgKinds :
         cDecls' = Append(cDecls, FunctionDeclOf(n, c, a))
    /\ UNCHANGED <<cPc, cIdx, cModule, cLog>>

\* Program::codegen is called; the struct loop (15-20) finds no struct
CallProgramCodegen ==
    /\ cPc = "source"
    /\ UNCHANGED nonCVars
    /\ cPc' = "extern"
    /\ cIdx' = 1
    /\ UNCHANGED <<cDecls, cModule, cLog>>

\* one pass of the loop of lines 23-27
CallExternSweep ==
    /\ cPc = "extern"
    /\ UNCHANGED nonCVars
    /\ IF cIdx > Len(cDecls)
       THEN /\ cPc' = "fn"
            /\ cIdx' = 1
            /\ UNCHANGED cModule
       ELSE /\ cIdx' = cIdx + 1
            /\ cModule' = IF cDecls[cIdx].kind = "extern"
                          THEN FunctionCreate(cModule, cDecls, cIdx)
                          ELSE cModule
            /\ UNCHANGED cPc
    /\ UNCHANGED <<cDecls, cLog>>

\* one pass of the loop of lines 30-34: FunctionDecl::codegen creates the
\* function (68-70) and then generates the body (93-95)
CallFunctionSweep ==
    /\ cPc = "fn"
    /\ UNCHANGED nonCVars
    /\ IF cIdx > Len(cDecls)
       THEN /\ cPc' = "done"
            /\ UNCHANGED <<cIdx, cModule, cLog>>
       ELSE /\ cIdx' = cIdx + 1
            /\ UNCHANGED cPc
            /\ IF cDecls[cIdx].kind = "fn"
               THEN LET function == FunctionCreate(cModule, cDecls, cIdx)
                        r == CallExpr_codegen(function, cDecls[cIdx])
                    IN /\ cModule' = function
                       /\ cLog' = Append(cLog, [decl |-> cIdx, v |-> r.v, out |-> r.out])
               ELSE UNCHANGED <<cModule, cLog>>
    /\ UNCHANGED cDecls

CallIdle ==
    /\ cPc = "idle"
    /\ cDecls = <<>>
    /\ cIdx = 1
    /\ cModule = {}
    /\ cLog = <<>>

CallInit ==
    /\ cPc = "source"
    /\ cDecls = <<>>
    /\ cIdx = 1
    /\ cModule = {}
    /\ cLog = <<>>

(***************************************************************************)
(* Member access on a name with several bindings: FunctionDecl::codegen    *)
(* (part_000:79-90), LetStmt::codegen (147-150), MemberAccess::codegen     *)
(* (550-584, 634-645) and the scope stacks (codegen.h:45-83). The function *)
(* has one parameter p, whose SSA value carries the number of its alloca.  *)
(***************************************************************************)
MaxShadowLets == 2
MaxScopes == 3

MaTypes == {"P", "i32"}          \* a struct type and a scalar type
MaNames == {"p", "q"}
MaMembers == {"x", "w"}          \* w is not in the member table

MaResult(kind, of, alloca, n, m) ==
    [kind |-> kind, of |-> of, alloca |-> alloca, n |-> n, m |-> m]
NoMemberAccess == MaResult("none", 0, 0, "", "")

\* MemberAccess::codegen, object an Identifier: the alloca when it holds a
\* struct (553-570), else the SSA value when that is a struct (573-583),
\* else the generic path, where a loaded scalar is no struct (634-636)
MemberOfName(at, vt, types, n, m) ==
    LET alloca == Lookup(at, Len(at), n)
        param_value == Lookup(vt, Len(vt), n)
    IN IF alloca # 0 /\ types[alloca] = "P"
       THEN IF m = "x" THEN MaResult("gep", alloca, alloca, n, m)
            ELSE MaResult("null", 0, alloca, n, m)
       ELSE IF param_value # 0 /\ types[param_value] = "P"
            THEN IF m = "x" THEN MaResult("extract", param_value, alloca, n, m)
                 ELSE MaResult("null", 0, alloca, n, m)
            ELSE MaResult("null", 0, alloca, n, m)

\* part_000 79-90: enterScope, then createAlloca and setValue for p
MaFunctionDecl ==
    /\ mPc = "start"
    /\ UNCHANGED nonMVars
    /\ \E ty \in MaTypes :
         /\ mAllocaTable' = Append(mAllocaTable, Bind({}, "p", 1))
         /\ mValueTable' = Append(mValueTable, Bind({}, "p", 1))
         /\ mTypes' = <<ty>>
    /\ mPc' = "run"
    /\ UNCHANGED mLast

\* codegen.h 45-48, called where an if arm or a while body begins
MaEnterScope ==
    /\ mPc = "run" /\ Len(mAllocaTable) < MaxScopes
    /\ UNCHANGED nonMVars
    /\ mAllocaTable' = Append(mAllocaTable, {})
    /\ mValueTable' = Append(mValueTable, {})
    /\ UNCHANGED <<mPc, mTypes, mLast>>

\* codegen.h 50-53, called where the arm or body ends
MaExitScope ==
    /\ mPc = "run" /\ Len(mAllocaTable) > 2
    /\ UNCHANGED nonMVars
    /\ mAllocaTable' = Front(mAllocaTable)
    /\ mValueTable' = Front(mValueTable)
    /\ UNCHANGED <<mPc, mTypes, mLast>>

\* part_000 147-150: createAlloca(name, llvm_type) binds in the top frame
MaLet ==
    /\ mPc = "run" /\ Len(mTypes) < 1 + MaxShadowLets
    /\ UNCHANGED nonMVars
    /\ \E n \in MaNames, ty \in MaTypes :
         /\ mAllocaTable' = [mAllocaTable EXCEPT ![Len(mAllocaTable)] =
                                Bind(@, n, Len(mTypes) + 1)]
         /\ mTypes' = Append(mTypes, ty)
    /\ UNCHANGED <<mPc, mValueTable, mLast>>

\* an expression statement n.m
MaMemberAccess ==
    /\ mPc = "run"
    /\ UNCHANGED nonMVars
    /\ \E n \in MaNames, m \in MaMembers :
         mLast' = MemberOfName(mAllocaTable, mValueTable, mTypes, n, m)
    /\ UNCHANGED <<mPc, mAllocaTable, mValueTable, mTypes>>

MaIdle ==
    /\ mPc = "idle"
    /\ mAllocaTable = <<{}>>
    /\ mValueTable = <<{}>>
    /\ mTypes = <<>>
    /\ mLast = NoMemberAccess

MaInit ==
    /\ mPc = "start"
    /\ mAllocaTable = <<{}>>
    /\ mValueTable = <<{}>>
    /\ mTypes = <<>>
    /\ mLast = NoMemberAccess

(***************************************************************************)
(* The AST builder on the statements of one function: visitProgram and     *)
(* visitFunction_decl (main.cpp:152-228), visitLet_statement (254-264),    *)
(* visitWhile_statement (340-354), popNode and pushNode (part_002:60-72).  *)
(* No visitor is written for statement and block_statement (part_001:      *)
(* 104-122), so OlangBaseVisitor::visitChildren visits their children.     *)
(* A statement is a let, a while or a block; a node carries the position   *)
(* of the statement it was built from.                                     *)
(***************************************************************************)
MaxBlockStmts == 2

SrcStmt(t, body) == [t |-> t, body |-> body]
SrcLet == SrcStmt("let", <<>>)

RECURSIVE Lets(_)
Lets(n) == IF n = 0 THEN <<>> ELSE Append(Lets(n - 1), SrcLet)

\* what stands inside a while or a block: a let or a block of lets
InnerStatements == {SrcLet} \cup {SrcStmt("block", Lets(n)) : n \in 0..MaxBlockStmts}
InnerBodies == UNION {SeqsOfLen(InnerStatements, n) : n \in 0..MaxBlockStmts}
\* what stands in the body of the function
Statements ==
    InnerStatements \cup {SrcStmt(t, b) : t \in {"while", "block"}, b \in InnerBodies}

Node(t, at, body) == [t |-> t, at |-> at, body |-> body]
NullNode == Node("null", <<>>, <<>>)

\* part_002 60-67
popNode(stack) ==
    IF stack # <<>>
    THEN [node |-> stack[Len(stack)], stack |-> SubSeq(stack, 1, Len(stack) - 1)]
    ELSE [node |-> NullNode, stack |-> stack]

\* part_002 70-72
pushNode(stack, node) == Append(stack, node)

RECURSIVE visitStatement(_, _, _)
RECURSIVE visitChildren(_, _, _, _)
RECURSIVE WhileBody(_, _, _, _, _)

\* OlangBaseVisitor::visitChildren on a block_statement: each statement
\* between the braces is visited, nothing is popped or pushed
visitChildren(stmts, i, at, stack) ==
    IF i > Len(stmts) THEN stack
    ELSE visitChildren(stmts, i + 1, at,
                       visitStatement(stmts[i], Append(at, i), stack))

\* main.cpp 346-349: visit(stmt); while_stmt->body.push_back(popNode())
WhileBody(stmts, i, at, stack, body) ==
    IF i > Len(stmts) THEN [stack |-> stack, body |-> body]
    ELSE LET p == popNode(visitStatement(stmts[i], Append(at, i), stack))
         IN WhileBody(stmts, i + 1, at, p.stack, Append(body, p.node))

\* visit(stmt) on a StatementContext: visitChildren reaches the visitor of
\* the alternative. The expression of a let or while is visited and popped
\* before the bodies are (258-259, 343-344).
visitStatement(stmt, at, stack) ==
    IF stmt.t = "let" THEN pushNode(stack, Node("let", at, <<>>))
    ELSE IF stmt.t = "while"
    THEN LET w == WhileBody(stmt.body, 1, at, stack, <<>>)
         IN pushNode(w.stack, Node("while", at, w.body))
    ELSE visitChildren(stmt.body, 1, at, stack)

\* main.cpp 212-226: the if-else chain has no branch for block_statement
visitFunctionStatement(stmt, at, stack) ==
    IF stmt.t = "block" THEN stack ELSE visitStatement(stmt, at, stack)

\* one pass of the loop of visitFunction_decl over ctx->statement()
TreeVisitStatement ==
    /\ tPc = "body" /\ Len(tSrc) < MaxBlockStmts
    /\ UNCHANGED nonTVars
    /\ \E stmt \in Statements :
         LET p == popNode(visitFunctionStatement(stmt, <<Len(tSrc) + 1>>, tStack))
         IN /\ tSrc' = Append(tSrc, stmt)
            /\ tBody' = Append(tBody, p.node)
            /\ tStack' = p.stack
    /\ UNCHANGED tPc

\* main.cpp 228: pushNode(std::move(func_decl))
TreeEndFunction ==
    /\ tPc = "body"
    /\ UNCHANGED nonTVars
    /\ tStack' = pushNode(tStack, Node("fn", <<>>, tBody))
    /\ tPc' = "declared"
    /\ UNCHANGED <<tSrc, tBody>>

\* main.cpp 163-172: program->declarations.push_back(popNode()) and
\* pushNode(std::move(program))
TreeEndProgram ==
    /\ tPc = "declared"
    /\ UNCHANGED nonTVars
    /\ LET p == popNode(tStack)
       IN tStack' = pushNode(p.stack, Node("program", <<>>, <<p.node>>))
    /\ tPc' = "done"
    /\ UNCHANGED <<tSrc, tBody>>

TreeIdle ==
    /\ tPc = "idle"
    /\ tSrc = <<>>
    /\ tStack = <<>>
    /\ tBody = <<>>

TreeInit ==
    /\ tPc = "body"
    /\ tSrc = <<>>
    /\ tStack = <<>>
    /\ tBody = <<>>

(***************************************************************************)
(* The AST builder on one postfix expression: visitPostfix_expr            *)
(* (main.cpp:558-632) on the children of                                   *)
(*   postfix_expr : primary_expr ( [ expression ] | . IDENTIFIER           *)
(*                               | ( argument_list? ) )*   (part_001:144). *)
(* An expression written in the s-th suffix is named s, and a node built   *)
(* at the s-th suffix remembers s.                                         *)
(***************************************************************************)
MaxSuffixes == 3

PrimaryKinds == {"Identifier", "IntLiteral"}

PfTerminal(type, s) == [k |-> "tok", type |-> type, s |-> s, e |-> <<>>]
PfExpression(s)     == [k |-> "expression", type |-> "", s |-> s, e |-> <<s>>]
PfArgumentList(s)   == [k |-> "argument_list", type |-> "", s |-> s, e |-> <<s>>]
PfPrimary(kind)     == [k |-> "primary_expr", type |-> kind, s |-> 0, e |-> <<>>]

\* the children one suffix adds
IndexSuffix(s)  == <<PfTerminal("LBRACKET", s), PfExpression(s), PfTerminal("RBRACKET", s)>>
MemberSuffix(s) == <<PfTerminal("DOT", s), PfTerminal("IDENTIFIER", s)>>
CallSuffix(s, hasArgs) ==
    <<PfTerminal("LPAREN", s)>>
        \o (IF hasArgs THEN <<PfArgumentList(s)>> ELSE <<>>)
        \o <<PfTerminal("RPAREN", s)>>

\* ctx->expression() and ctx->argument_list(): the children of that type
expression(cs) == SelectSeq(cs, LAMBDA c : c.k = "expression")
argument_list(cs) == SelectSeq(cs, LAMBDA c : c.k = "argument_list")

PfNode(t, at, object, operand) ==
    [t |-> t, at |-> at, object |-> object, operand |-> operand]

\* a suffix that is given the expression or argument list of its own
OwnOperand(cs, kind, s) ==
    LET own == SelectSeq(cs, LAMBDA c : c.k = kind /\ c.s = s)
    IN IF own = <<>> THEN <<>> ELSE own[1].e

\* ctx->expression(0), ctx->argument_list(0): the first one of the whole
\* postfix expression, whatever suffix the loop stands on
FirstOperand(cs, kind, s) ==
    LET all == SelectSeq(cs, LAMBDA c : c.k = kind)
    IN IF all = <<>> THEN <<>> ELSE all[1].e

\* main.cpp 563-628: the loop over ctx->children, i counted from 1 here
RECURSIVE PostfixLoop(_, _, _)
PostfixLoop(cs, i, node) ==
    IF i > Len(cs) THEN node
    ELSE LET child == cs[i]
         IN IF child.k # "tok" THEN PostfixLoop(cs, i + 1, node)
            ELSE IF child.type = "LPAREN"
            THEN IF node.t = "Identifier"
                 THEN PostfixLoop(cs, i + 1,
                        PfNode("CallExpr", child.s, node,
                               IF argument_list(cs) # <<>>
                               THEN FirstOperand(cs, "argument_list", child.s)
                               ELSE <<>>))
                 ELSE PostfixLoop(cs, i + 1, node)
            ELSE IF child.type = "DOT"
            THEN IF i + 1 <= Len(cs) /\ cs[i + 1].k = "tok"
                    /\ cs[i + 1].type = "IDENTIFIER"
                 THEN PostfixLoop(cs, i + 2, PfNode("MemberAccess", child.s, node, <<>>))
                 ELSE PostfixLoop(cs, i + 1, node)
            ELSE IF child.type = "LBRACKET"
            THEN IF expression(cs) # <<>>
                 THEN PostfixLoop(cs, i + 1,
                        PfNode("ArrayAccess", child.s, node,
                               FirstOperand(cs, "expression", child.s)))
                 ELSE PostfixLoop(cs, i + 1, node)
            ELSE PostfixLoop(cs, i + 1, node)

\* the parser adds a suffix
PfSourceIndex ==
    /\ pfPc = "source" /\ pfSuffixes < MaxSuffixes
    /\ UNCHANGED nonPfVars
    /\ pfChildren' = pfChildren \o IndexSuffix(pfSuffixes + 1)
    /\ pfSuffixes' = pfSuffixes + 1
    /\ UNCHANGED <<pfPc, pfNode>>

PfSourceMember ==
    /\ pfPc = "source" /\ pfSuffixes < MaxSuffixes
    /\ UNCHANGED nonPfVars
    /\ pfChildren' = pfChildren \o MemberSuffix(pfSuffixes + 1)
    /\ pfSuffixes' = pfSuffixes + 1
    /\ UNCHANGED <<pfPc, pfNode>>

PfSourceCall ==
    /\ pfPc = "source" /\ pfSuffixes < MaxSuffixes
    /\ UNCHANGED nonPfVars
    /\ \E hasArgs \in BOOLEAN :
         pfChildren' = pfChildren \o CallSuffix(pfSuffixes + 1, hasArgs)
    /\ pfSuffixes' = pfSuffixes + 1
    /\ UNCHANGED <<pfPc, pfNode>>

\* main.cpp 558-632
visitPostfix_expr ==
    /\ pfPc = "source"
    /\ UNCHANGED nonPfVars
    /\ pfNode' = PostfixLoop(pfChildren, 2,
                             PfNode(pfChildren[1].type, 0, <<>>, <<>>))
    /\ pfPc' = "built"
    /\ UNCHANGED <<pfChildren, pfSuffixes>>

PfIdle ==
    /\ pfPc = "idle"
    /\ pfChildren = <<>>
    /\ pfSuffixes = 0
    /\ pfNode = PfNode("none", 0, <<>>, <<>>)

PfInit ==
    /\ pfPc = "source"
    /\ pfChildren \in {<<PfPrimary(kind)>> : kind \in PrimaryKinds}
    /\ pfSuffixes = 0
    /\ pfNode = PfNode("none", 0, <<>>, <<>>)

(***************************************************************************)
(* Specifications.                                                         *)
(***************************************************************************)
InitCompile == CompileInit /\ ProgIdle /\ GenIdle /\ ExprIdle /\ IfIdle /\ AsIdle /\ BinIdle /\ CallIdle /\ MaIdle /\ TreeIdle /\ PfIdle

NextCompile ==
    \/ Start \/ PPEnter \/ PPScan \/ PPResume \/ ReadInput
    \/ Parse \/ BuildAST \/ GenerateIR \/ Verify \/ Emit

SpecCompile == InitCompile /\ [][NextCompile]_vars

InitProg == ProgInit /\ CompileInit /\ GenIdle /\ ExprIdle /\ IfIdle /\ AsIdle /\ BinIdle /\ CallIdle /\ MaIdle /\ TreeIdle /\ PfIdle

NextProg == StructSweep \/ ExternSweep \/ FunctionSweep

SpecProg == InitProg /\ [][NextProg]_vars

InitGen == GenInit /\ CompileInit /\ ProgIdle /\ ExprIdle /\ IfIdle /\ AsIdle /\ BinIdle /\ CallIdle /\ MaIdle /\ TreeIdle /\ PfIdle

NextGen ==
    \/ GenStart \/ StmtLet \/ StmtReturn \/ StmtExpr \/ StmtIf \/ StmtWhile
    \/ BodyEnd \/ AfterThen \/ AfterElse \/ AfterWhile \/ AfterFn

SpecGen == InitGen /\ [][NextGen]_vars

InitExpr == ExprInit /\ CompileInit /\ ProgIdle /\ GenIdle /\ IfIdle /\ AsIdle /\ BinIdle /\ CallIdle /\ MaIdle /\ TreeIdle /\ PfIdle

NextExpr == SourceOperand \/ SourceOperator \/ BuildExprAST \/ ReturnExpr

SpecExpr == InitExpr /\ [][NextExpr]_vars

InitIf == IfInit /\ CompileInit /\ ProgIdle /\ GenIdle /\ ExprIdle /\ AsIdle /\ BinIdle /\ CallIdle /\ MaIdle /\ TreeIdle /\ PfIdle

NextIf == IfSourceStatement \/ IfSourceCloseThen \/ IfSourceCloseElse \/ visitIf_statement

SpecIf == InitIf /\ [][NextIf]_vars

InitAs == AsInit /\ CompileInit /\ ProgIdle /\ GenIdle /\ ExprIdle /\ IfIdle /\ BinIdle /\ CallIdle /\ MaIdle /\ TreeIdle /\ PfIdle

NextAs == LetLocals \/ AssignStmt \/ ReadStmt

SpecAs == InitAs /\ [][NextAs]_vars

InitBin == BinInit /\ CompileInit /\ ProgIdle /\ GenIdle /\ ExprIdle /\ IfIdle /\ AsIdle /\ CallIdle /\ MaIdle /\ TreeIdle /\ PfIdle

NextBin == BinSourceOperand \/ BinSourceOperator \/ BinGenerate

SpecBin == InitBin /\ [][NextBin]_vars

InitCall == CallInit /\ CompileInit /\ ProgIdle /\ GenIdle /\ ExprIdle /\ IfIdle /\ AsIdle /\ BinIdle /\ MaIdle /\ TreeIdle /\ PfIdle

NextCall ==
    \/ CallSourceExtern \/ CallSourceFunction \/ CallProgramCodegen
    \/ CallExternSweep \/ CallFunctionSweep

SpecCall == InitCall /\ [][NextCall]_vars

InitMa == MaInit /\ CompileInit /\ ProgIdle /\ GenIdle /\ ExprIdle /\ IfIdle /\ AsIdle /\ BinIdle /\ CallIdle /\ TreeIdle /\ PfIdle

NextMa == MaFunctionDecl \/ MaEnterScope \/ MaExitScope \/ MaLet \/ MaMemberAccess

SpecMa == InitMa /\ [][NextMa]_vars

InitTree == TreeInit /\ CompileInit /\ ProgIdle /\ GenIdle /\ ExprIdle /\ IfIdle /\ AsIdle /\ BinIdle /\ CallIdle /\ MaIdle /\ PfIdle

NextTree == TreeVisitStatement \/ TreeEndFunction \/ TreeEndProgram

SpecTree == InitTree /\ [][NextTree]_vars

InitPostfix == PfInit /\ CompileInit /\ ProgIdle /\ GenIdle /\ ExprIdle /\ IfIdle /\ AsIdle /\ BinIdle /\ CallIdle /\ MaIdle /\ TreeIdle

NextPostfix == PfSourceIndex \/ PfSourceMember \/ PfSourceCall \/ visitPostfix_expr

SpecPostfix == InitPostfix /\ [][NextPostfix]_vars

(***************************************************************************)
(* Claims about the preprocessor.                                          *)
(***************************************************************************)
Count(seq, tok) == Cardinality({i \in 1..Len(seq) : seq[i] = tok})

RECURSIVE CountInResults(_, _)
CountInResults(n, tok) ==
    IF n = 0 THEN 0
    ELSE Count(ppStack[n].result, tok) + CountInResults(n - 1, tok)

\* how often a stretch of text of a source file stands in the text produced
\* so far: in the results under construction, in the value being returned
\* and in the input handed to the parser
Occurrences(tok) ==
    CountInResults(Len(ppStack), tok) + Count(ppRet, tok) + Count(input, tok)

TextToks == {TextTok(f, i) : f \in Files, i \in 1..MaxItems}

\* C1: the text of every canonical path is spliced into the output at most
\* once, and a request for a canonical path that was requested before
\* returns the empty string.
C1_IncludedAtMostOnce ==
    /\ \A tok \in TextToks : Occurrences(tok) <= 1
    /\ (ppPhase = "ret" /\ retRepeat) => ppRet = <<>>

\* file a has spliced the text of b and asks for b again under its second
\* spelling; the repeated request has just returned
C1_Witness ==
    /\ ppPhase = "ret" /\ retRepeat /\ Len(ppStack) = 1
    /\ Top.include_file = "b2"
    /\ Count(Top.result, TextTok("b", 1)) = 1

PPFinished == ppPhase \in {"done", "terminated"} \/ pc = "exit"

\* one pass of the scan loop that came back from the recursive call
ScanProgress ==
    (pc = "preprocess" /\ ppPhase = "ret" /\ ppStack # <<>> /\ ppPhase' = "scan")
    => \/ Len(ppStack'[Len(ppStack')].content) < Len(Top.content)
       \/ ppStack'[Len(ppStack')].pos > Top.pos

\* A variant of the preprocessor: the paths not yet seen weigh more than
\* any file is long, each activation counts the content it has yet to scan,
\* and the position inside one pass of the loop breaks ties.
RECURSIVE ToScan(_)
ToScan(n) ==
    IF n = 0 THEN 0
    ELSE (Len(ppStack[n].content) - ppStack[n].pos) + ToScan(n - 1)

PhaseRank ==
    IF ppPhase = "scan" THEN 3 ELSE IF ppPhase = "call" THEN 2
    ELSE IF ppPhase = "ret" THEN 1 ELSE 0

LongestFile == Len(Directive("a")) * MaxItems

PPRank ==
    Cardinality(PathNames \ included_files) * (3 * LongestFile + 3)
    + 3 * ToScan(Len(ppStack)) + PhaseRank

\* the guard of PPEnter, PPScan, PPResume or ReadInput holds
PPCanStep ==
    \/ ppPhase = "call"
    \/ ppPhase = "scan" /\ ppStack # <<>>
    \/ ppPhase = "ret"

\* C2: processIncludes terminates: every step of it lowers a variant that
\* never goes below zero, and until it has returned to main one of its
\* steps can be taken; the recursion is no deeper
\* than the set of seen paths is large, and every pass of the scan loop
\* shortens the remaining content or strictly advances the scan position.
C2_Terminates ==
    /\ [][pc = "preprocess" => (PPRank' < PPRank /\ PPRank' >= 0)]_vars
    /\ [](pc = "preprocess" => PPCanStep)
    /\ [](Len(ppStack) <= Cardinality(included_files))
    /\ [][ScanProgress]_vars

\* preprocessing ended although b includes a (a cycle) and a holds a
\* directive without a semicolon after it
C2_Witness ==
    /\ ppPhase = "ret" /\ ppStack = <<>>
    /\ fs["a"].text = Unterminated("b")
    /\ fs["b"].st = "file" /\ \E i \in 1..Len(fs["b"].text) : fs["b"].text[i] = PathTok("a")

\* the call being entered names a file that cannot be opened
CannotOpen ==
    /\ pc = "preprocess" /\ ppPhase = "call" /\ ppStack # <<>>
    /\ \/ ~Exists(ppArg)
       \/ /\ SeenKey(ppArg) \notin included_files
          /\ fs'[Canonical(ppArg)].st = "unreadable"

\* C3: an include directive naming a file that cannot be opened (one that
\* does not exist, for example) yields a diagnostic and the empty text, and
\* the compilation goes on.
C3_UnopenableIncludeIsSkipped ==
    [][CannotOpen => (/\ ppPhase' = "ret"
                      /\ ppRet' = <<>>
                      /\ diag' = diag + 1
                      /\ pc' = "preprocess")]_vars

(***************************************************************************)
(* Claims about the driver and the backend.                                *)
(***************************************************************************)
\* C4: an output file is written only after verifyModule returned success;
\* when verification fails the compiler exits with 1 and calls neither
\* optimizeAndEmit nor emitObjectFile.
C4_EmitOnlyAfterVerify ==
    /\ (outFile # "untouched" \/ called # {}) => verified = "ok"
    /\ verified = "failed" => (pc = "exit" /\ exitCode = 1 /\ called = {}
                               /\ outFile = "untouched")

C4_Witness ==
    pc = "exit" /\ verified = "ok" /\ outFile = "written" /\ ~emit_llvm

\* C5: whenever emitObjectFile returns false, no file has been created or
\* truncated at the output path.
C5_NoFileOnFailure == emitRet = "false" => outFile = "untouched"

\* C6: the process exits with 0 only when every stage succeeded, and with 1
\* on any error.
C6_ExitCodeTellsSuccess ==
    pc = "exit" => /\ exitCode \in {0, 1}
                   /\ exitCode = 0 <=> failure = "none"

(***************************************************************************)
(* Claims about the module builder.                                        *)
(***************************************************************************)
KindRank(k) == IF k = "struct" THEN 1 ELSE IF k = "extern" THEN 2 ELSE 3

DeclsOfKind(k) == {i \in 1..Len(declarations) : declarations[i] = k}
Registered == {moduleFns[j] : j \in 1..Len(moduleFns)}
FnGenerated == \E j \in 1..Len(genLog) : declarations[genLog[j]] = "fn"

\* C7: every StructDecl is generated before any ExternDecl and every
\* ExternDecl before any FunctionDecl, each sweep in source order; so all
\* struct types and extern symbols are registered before the first function
\* body is generated, and in the end every declaration was generated once.
C7_SweepOrder ==
    /\ \A i, j \in 1..Len(genLog) :
         i < j => \/ KindRank(declarations[genLog[i]]) < KindRank(declarations[genLog[j]])
                  \/ /\ declarations[genLog[i]] = declarations[genLog[j]]
                     /\ genLog[i] < genLog[j]
    /\ FnGenerated => /\ struct_types = DeclsOfKind("struct")
                      /\ DeclsOfKind("extern") \subseteq Registered
    /\ sweep = "done" => /\ Len(genLog) = Len(declarations)
                         /\ {genLog[j] : j \in 1..Len(genLog)} = 1..Len(declarations)

\* a function written first in the source was generated last
C7_Witness ==
    /\ sweep = "done"
    /\ declarations = <<"fn", "extern", "struct", "fn">>
    /\ genLog = <<3, 2, 1, 4>>


\* the instructions of the function, as <<block, position>>
InstrPositions ==
    UNION {{<<b, j>> : j \in 1..Len(blocks[b].insts)} : b \in 1..Len(blocks)}
InstrAt(bj) == blocks[bj[1]].insts[bj[2]]
TerminatorsOf(b) == {bj \in InstrPositions : bj[1] = b /\ IsTerminator(InstrAt(bj))}

\* C8: once a function has been generated whose return type is void or has a
\* default value, every block attached to it holds exactly one terminator,
\* and that terminator is the block's last instruction.
C8_OneTerminatorPerBlock ==
    (genPc = "done" /\ fnRet \in DefaultValueKinds \cup {"VOID"}) =>
        \A b \in 1..Len(blocks) :
            blocks[b].attached =>
                TerminatorsOf(b) = {<<b, Len(blocks[b].insts)>>}

AfterTasks == {i \in 1..Len(work) : work[i].t # "body"}

\* C9: the two scope stacks always have the same depth, at least 1; no
\* exitScope runs without its enterScope and after the function all of them
\* are matched; while generating, the depth is one more than the number of
\* open function/if/while generators; and each generator that finishes leaves
\* the depth it found, whatever its body held.
C9_ScopesBalanced ==
    /\ [](/\ Len(alloca_table) = Len(value_table)
          /\ Len(alloca_table) >= 1
          /\ scopeOps.exit <= scopeOps.enter
          /\ Len(alloca_table) = 1 + scopeOps.enter - scopeOps.exit
          /\ genPc = "run" => Len(alloca_table) = 1 + Cardinality(AfterTasks)
          /\ genPc = "done" => /\ scopeOps.exit = scopeOps.enter
                               /\ Len(alloca_table) = 1)
    /\ [][(genPc = "run" /\ work # <<>> /\ TopTask.t # "body")
            => IF Len(work') < Len(work)
               THEN Len(alloca_table') = TopTask.d /\ Len(value_table') = TopTask.d
               ELSE Len(alloca_table') = TopTask.d + 1]_vars

\* a finished function whose while or if body held a return and a let whose
\* initializer generated null (an alloca that is never stored to)
C9_Witness ==
    /\ genPc = "done"
    /\ scopeOps.enter >= 2
    /\ Len(alloca_table) = 1
    /\ \E bj \in InstrPositions : bj[1] > 1 /\ InstrAt(bj).op = "ret"
    /\ nAlloca > Cardinality({bj \in InstrPositions : InstrAt(bj).op = "store"})

\* the operator a token denotes
OpOf(tok) ==
    CASE tok = "PLUS" -> "ADD" [] tok = "MINUS" -> "SUB"
      [] tok = "MULTIPLY" -> "MUL" [] tok = "DIVIDE" -> "DIV" [] tok = "MODULO" -> "MOD"
      [] tok = "EQUAL" -> "EQ" [] tok = "NOT_EQUAL" -> "NE"
      [] tok = "LESS" -> "LT" [] tok = "GREATER" -> "GT"
      [] tok = "LESS_EQUAL" -> "LE" [] tok = "GREATER_EQUAL" -> "GE"

\* left-associative tree in which every node has the operator written
\* between its operands
RECURSIVE LeftAssoc(_, _, _, _)
LeftAssoc(left, kids, i, ops) ==
    IF i > Len(kids) THEN left
    ELSE LeftAssoc(BinaryExpr(OpOf(ops[i - 1]), left, kids[i]), kids, i + 1, ops)

UsualMultiplicative(toks) ==
    LET ctx == SplitChain(toks, MultiplicativeTokens)
        kids == [i \in 1..Len(ctx.kids) |-> Atom(ctx.kids[i][1].v)]
    IN LeftAssoc(kids[1], kids, 2, ctx.ops)

UsualAdditive(toks) ==
    LET ctx == SplitChain(toks, AdditiveTokens)
        kids == [i \in 1..Len(ctx.kids) |-> UsualMultiplicative(ctx.kids[i])]
    IN LeftAssoc(kids[1], kids, 2, ctx.ops)

ArithmeticOnly(toks) ==
    \A i \in 1..Len(toks) :
        toks[i].k = "op" => toks[i].o \in AdditiveTokens \cup MultiplicativeTokens

\* C10: for E built from i32 operands and + - * / %, the emitted f returns
\* the value E has with * / % binding tighter than + -, every level
\* associating to the left, in wrapping signed 32-bit arithmetic.
C10_ReturnsValueOfE ==
    (exPc = "returned" /\ ArithmeticOnly(exToks)) =>
        exRet = ExprValue(UsualAdditive(exToks))

IntegerKinds == {"I1", "I8", "I16", "I32", "I64"}
FloatKinds == {"F16", "F32", "F64"}
AggregateKinds == {"ARRAY", "STRUCT"}
LastInstr(bs, b) == bs[b].insts[Len(bs[b].insts)]

\* C11: when the body leaves the insertion block without terminator, the end
\* of FunctionDecl generation appends ret void for a void function and a ret
\* of a value for every integer and every floating return type, and leaves
\* the block as it is for aggregate return types only.
C11_DefaultReturn ==
    [][(genPc = "run" /\ genPc' = "done" /\ ~HasTerminator(GenState, cur)) =>
          /\ fnRet' = "VOID" =>
                /\ Len(blocks'[cur].insts) = Len(blocks[cur].insts) + 1
                /\ LastInstr(blocks', cur) = Instr("ret", 0, 0)
          /\ fnRet' \in IntegerKinds \cup FloatKinds =>
                /\ Len(blocks'[cur].insts) = Len(blocks[cur].insts) + 1
                /\ LastInstr(blocks', cur) = Instr("ret", 1, 0)
          /\ blocks' = blocks => fnRet' \in AggregateKinds]_vars

\* C12: while a function is generated, no name resolves both to an alloca
\* and to an SSA value in the scope stacks.
C12_OneBindingForm ==
    genPc = "run" =>
        \A n \in Names : ~(GetAlloca(GenState, n) # 0 /\ GetValue(GenState, n) # 0)

\* C13: every alloca created, for a parameter or for a let at any depth, is
\* in the entry block and stands before every instruction of that block that
\* is not an alloca; no other block holds an alloca.
C13_AllocasLeadEntryBlock ==
    /\ \A b \in 2..Len(blocks) :
          \A j \in 1..Len(blocks[b].insts) : blocks[b].insts[j].op # "alloca"
    /\ IF blocks = <<>> THEN nAlloca = 0
       ELSE \A j \in 1..Len(blocks[1].insts) :
               (blocks[1].insts[j].op = "alloca") <=> (j <= nAlloca)

\* a finished function with a parameter and a let inside an if arm or a
\* while body: its store is in a block other than entry
C13_Witness ==
    /\ genPc = "done"
    /\ nAlloca >= 2
    /\ \E bj \in InstrPositions : bj[1] > 1 /\ InstrAt(bj).op = "store"
    /\ \E bj \in InstrPositions : bj[1] = 1 /\ InstrAt(bj).op = "store"

LevelsOfTokens ==
    {MultiplicativeTokens, AdditiveTokens, RelationalTokens, EqualityTokens}
\* the operators of E all belong to one precedence level
OneLevel(toks) ==
    \E S \in LevelsOfTokens : \A i \in 1..Len(toks) : toks[i].k = "op" => toks[i].o \in S

\* C14: of a chain e0 op1 e1 ... opn en at one precedence level the AST
\* builder makes the left-leaning tree whose k-th node has the operator opk.
C14_ChainKeepsOperators ==
    (exPc \in {"ast", "returned"} /\ OneLevel(exToks)) =>
        LET ctx == SplitChain(exToks, OperatorTokens)
            kids == [i \in 1..Len(ctx.kids) |-> Atom(ctx.kids[i][1].v)]
        IN exAst = LeftAssoc(kids[1], kids, 2, ctx.ops)

BranchTo(bs, b) == HasPredecessor([blocks |-> bs], b)
\* this step is the end of IfStmt generation
IfEnds ==
    /\ genPc = "run" /\ work # <<>>
    /\ TopTask.t \in {"afterThen", "afterElse"}
    /\ Len(work') < Len(work)

\* C16: at the end of IfStmt generation the merge block is attached exactly
\* if a branch to it was emitted; attached, it is the insertion point;
\* otherwise it is discarded, the insertion point stays in the else arm and
\* the block is never attached, entered or branched to later. An if without
\* else always ends with its merge block attached and branched to.
C16_MergeAttachedIffUsed ==
    /\ [][IfEnds =>
            LET m == TopTask.b2
            IN /\ blocks'[m].attached <=> BranchTo(blocks', m)
               /\ blocks'[m].attached => cur' = m
               /\ ~blocks'[m].attached => blocks'[m].name = "deleted" /\ cur' # m
               /\ (/\ TopTask.t = "afterElse"
                   /\ ~BranchTo(blocks, m)
                   /\ HasTerminator(GenState, cur))
                     => blocks'[m].name = "deleted"
               /\ TopTask.t = "afterThen"
                     => blocks'[m].attached /\ BranchTo(blocks', m)]_vars
    /\ [](\A b \in 1..Len(blocks) :
             blocks[b].name = "deleted" =>
                 ~blocks[b].attached /\ cur # b /\ ~BranchTo(blocks, b)
                 /\ blocks[b].insts = <<>>)

\* a finished function with an if both of whose arms end in return: its
\* merge block was discarded
C16_Witness ==
    /\ genPc = "done"
    /\ \E b \in 1..Len(blocks) :
          /\ blocks[b].name = "deleted"
          /\ LastInstr(blocks, b - 2).op = "ret"
          /\ LastInstr(blocks, b - 1).op = "ret"

\* the blocks of bs that hold a branch to block b
PredBlocks(bs, b) ==
    {c \in 1..Len(bs) : \E j \in 1..Len(bs[c].insts) :
        LET i == bs[c].insts[j]
        IN \/ i.op = "br" /\ i.a = b
           \/ i.op = "condbr" /\ (i.a = b \/ i.b = b)}
\* this step is the end of WhileStmt generation for a body that ended in return
WhileEndsAfterReturn ==
    /\ genPc = "run" /\ work # <<>> /\ TopTask.t = "afterWhile"
    /\ blocks[cur].insts # <<>> /\ LastInstr(blocks, cur).op = "ret"

\* C17 as stated: after a while statement whose body ends in return,
\* while_end has no predecessors and is the insertion point.
C17_EndHasNoPredecessor ==
    [][WhileEndsAfterReturn =>
          PredBlocks(blocks', TopTask.b2) = {} /\ cur' = TopTask.b2]_vars

\* C17 amended: after a while statement whose body ends in return, no branch
\* back to while_cond is added, while_end is attached, has the conditional
\* branch of while_cond as its only predecessor, and is the insertion point.
C17_EndReachedFromCondOnly ==
    [][WhileEndsAfterReturn =>
          /\ blocks' = blocks
          /\ blocks'[TopTask.b2].attached
          /\ blocks'[TopTask.b2].name = "while_end"
          /\ PredBlocks(blocks', TopTask.b2) = {TopTask.b1}
          /\ cur' = TopTask.b2]_vars

\* a finished function with a loop whose body ends in return and with code
\* after the loop, which went into while_end
C17_Witness ==
    /\ genPc = "done"
    /\ \E b \in 1..Len(blocks) :
          /\ blocks[b].name = "while_body"
          /\ blocks[b].insts # <<>> /\ LastInstr(blocks, b).op = "ret"
          /\ blocks[b + 1].name = "while_end"
          /\ Len(blocks[b + 1].insts) >= 2

(***************************************************************************)
(* Claims about assignments, member access and array access.               *)
(***************************************************************************)
TableMembers == {"x", "y", "z"}

IsMemberShape(e) == e.shape \in {"MemberAccess", "MemberOfArray"}

\* one of the four left-hand shapes over a bound name of the matching kind
SupportedShape(e) ==
    \/ e.shape = "Identifier" /\ HasAlloca(e.n)
    \/ e.shape = "ArrayAccess" /\ HasAlloca(e.n) /\ isArrayTy(e.n)
    \/ e.shape = "MemberAccess" /\ HasAlloca(e.n) /\ isStructTy(e.n)
    \/ e.shape = "MemberOfArray" /\ HasAlloca(e.n) /\ isArrayTy(e.n)
                                 /\ ElementIsStruct(e.n)

\* the fixed index of the member is a field of the struct
IndexInStruct(m, fl) ==
    \/ m = "x" /\ Len(fl) >= 1
    \/ m = "y" /\ Len(fl) >= 2
    \/ m = "z" /\ Len(fl) >= 3

StoredAndReturned ==
    /\ asPc # "crashed"
    /\ last.ret = "rhs"
    /\ last.v = last.rv
    /\ Stores(last.instrs) = 1

NothingStored == last.ret = "null" /\ Stores(last.instrs) = 0

\* C18, as stated: an assignment whose right side has a value returns it and
\* emits exactly one store when the left side is one of the four shapes over
\* a bound name of the matching kind (a member being a field the struct
\* declares); every other shape, and an unbound name, gives null and no store.
C18_StoreForSupportedShapes ==
    (last.op = "assign" /\ last.rv # Null) =>
        IF SupportedShape(last.e)
        THEN (IsMemberShape(last.e) => Declared(last.e.m, fields)) => StoredAndReturned
        ELSE NothingStored

\* C18, amended: the same, with the member shapes storing exactly when the
\* member is x, y or z and its fixed index is a field of the struct; a member
\* of any other name, declared or not, gives null and no store, as do the
\* other shapes, an unbound name and a name of the wrong kind.
C18_StoreForTableMembers ==
    (last.op = "assign" /\ last.rv # Null) =>
        IF SupportedShape(last.e) /\ ~IsMemberShape(last.e)
        THEN StoredAndReturned
        ELSE IF SupportedShape(last.e) /\ last.e.m \in TableMembers
        THEN IndexInStruct(last.e.m, fields) => StoredAndReturned
        ELSE NothingStored

\* an element member was assigned: q[i].m = 3 stored 3 in that cell, and an
\* assignment to a declared member outside the table has returned null
C18_Witness ==
    /\ asPc = "run"
    /\ last.op = "assign"
    /\ last.e.shape = "MemberOfArray"
    /\ last.e.n = "q"
    /\ last.e.m = "y"
    /\ Declared("y", fields)
    /\ last.ret = "rhs"
    /\ Stores(last.instrs) = 1
    /\ mem[<<"q", last.e.i, 1>>] = last.rv

\* C19: a member access or member assignment on a struct whose member is not
\* a field the struct declares returns null, and emits no field address with
\* an index outside the declared fields.
C19_UnknownMemberIsNull ==
    (/\ last.op \in {"assign", "read"}
     /\ last.op = "assign" => last.rv # Null
     /\ IsMemberShape(last.e)
     /\ SupportedShape(last.e)
     /\ ~Declared(last.e.m, fields)) =>
        /\ asPc # "crashed"
        /\ last.ret = "null"
        /\ \A k \in 1..Len(last.instrs) :
             last.instrs[k].op = "structgep" => last.instrs[k].a < Len(fields)

\* the locations C20 speaks about: s, a[i] in bounds, and p.m or q[i].m with
\* m a declared field among x, y, z
RoundTripLocation(e) ==
    IsLocation(e, fields) /\ (IsMemberShape(e) => e.m \in TableMembers)

\* C20: as long as every store was an assignment to a location of a local, a
\* read of p.m (m a declared field among x, y, z) or of a[i] (i in bounds)
\* yields what was last assigned there, zero when nothing was, whatever was
\* assigned to the other fields and elements; and such an assignment and such
\* a read go through.
C20_WriteThenRead ==
    /\ (clean /\ last.op = "read" /\ RoundTripLocation(last.e)) =>
          /\ asPc # "crashed"
          /\ last.ret = "load"
          /\ last.v = shadow[last.e]
    /\ (clean /\ last.op = "assign" /\ last.rv # Null
              /\ RoundTripLocation(last.e)) =>
          asPc # "crashed"

(***************************************************************************)
(* Claims about name lookup.                                               *)
(***************************************************************************)
\* the alloca a name has in the innermost frame that binds it, 0 if none does
InnermostBinding(tbl, n) ==
    LET binding == {i \in 1..Len(tbl) : \E r \in tbl[i] : r.n = n}
    IN IF binding = {} THEN 0
       ELSE LET top == CHOOSE i \in binding : \A k \in binding : k <= i
            IN (CHOOSE r \in tbl[top] : r.n = n).a

\* the instructions a step has appended: those behind the old end of the
\* block of the insertion point (one further when an alloca was put in front
\* of that block) and those of the blocks the step created
AppendedInstrs ==
    LET shift == IF cur = 1 /\ nAlloca' # nAlloca THEN 1 ELSE 0
        behind == IF cur = 0 THEN {}
                  ELSE {blocks'[cur].insts[j] :
                          j \in (Len(blocks[cur].insts) + shift + 1)
                                 ..Len(blocks'[cur].insts)}
    IN behind \cup UNION {{blocks'[b].insts[j] : j \in 1..Len(blocks'[b].insts)} :
                          b \in (Len(blocks) + 1)..Len(blocks')}

\* C21: an identifier loads from the alloca its name has in the innermost
\* scope that binds it, and emits no load when no scope binds it; a let binds
\* in the innermost scope only, and at the end of an if arm or while body
\* every name resolves as it did in the scopes around that arm or body.
C21_LexicalScoping ==
    [][/\ \A i \in AppendedInstrs :
            i.op = "load" => (i.a # 0 /\ i.a = InnermostBinding(alloca_table', "x"))
       /\ \A i \in 1..(Len(alloca_table) - 1) :
            i <= Len(alloca_table') => alloca_table'[i] = alloca_table[i]
       /\ (genPc = "run" /\ TopTask.t \in {"afterThen", "afterElse", "afterWhile"}) =>
            \A n \in Names :
               InnermostBinding(alloca_table', n) =
                  InnermostBinding(Front(alloca_table), n)]_vars

\* after an arm or body that declared its own x, x is the outer alloca again
\* and has just been loaded
C21_Witness ==
    /\ genPc = "run"
    /\ Len(alloca_table) = 2
    /\ nAlloca = 2
    /\ GetAlloca(GenState, "x") = 1
    /\ cur > 1
    /\ blocks[cur].insts # <<>>
    /\ blocks[cur].insts[Len(blocks[cur].insts)] = Instr("load", 1, 0)

(***************************************************************************)
(* Claims about the code of binary expressions.                            *)
(***************************************************************************)
\* the operands of an expression that emit code, as the instruction each
\* emits, in the order they are written
RECURSIVE OperandsInOrder(_, _)
OperandsInOrder(node, at) ==
    IF node.k = "bin"
    THEN OperandsInOrder(node.left, Append(at, 0))
         \o OperandsInOrder(node.right, Append(at, 1))
    ELSE IF node.k = "unbound" THEN <<>>
    ELSE <<Emitted(IF node.k = "call" THEN "call"
                   ELSE IF node.k = "assign" THEN "store" ELSE "load", at)>>

IsOperandCode(i) == i.op \in {"call", "store", "load"}

\* C22: the code of a binary expression holds the code of each operand once,
\* in the order written, whatever the operators (&& and || included) and
\* whether or not an operand to the left has a value, and no block is created.
C22_BothOperandsOnceInOrder ==
    bPc = "generated" =>
        /\ SelectSeq(bOut, IsOperandCode) = OperandsInOrder(bAst, <<>>)
        /\ bBlocks = 1

\* u && f() or u || f() with u unbound: the code of the right operand is
\* emitted although the left operand has no value
C22_Witness ==
    /\ bPc = "generated"
    /\ bAst.op \in {"AND", "OR"}
    /\ bAst.left.k = "unbound"
    /\ bAst.right.k \in {"call", "assign"}
    /\ Len(bOut) = 1
    /\ ~bRet

(***************************************************************************)
(* Claims about directives without a semicolon, and about the splice.      *)
(***************************************************************************)
\* the recursive call has returned and no semicolon stands behind the closing
\* quote of the directive
ReturnedWithoutSemicolon ==
    /\ pc = "preprocess" /\ ppPhase = "ret" /\ ppStack # <<>>
    /\ FindTok(Top.content, "semi", Top.quote_end) = NPos

HasFrame(f) == \E n \in 1..Len(ppStack) : Canonical(ppStack[n].filename) = f

\* the file was read and its text stands nowhere in the text produced
TextOf(f) == {fs[f].text[k] : k \in {j \in 1..Len(fs[f].text) : fs[f].text[j].k = "t"}}

ReadAndAbsent(f) ==
    /\ f \in included_files
    /\ ~HasFrame(f)
    /\ \A tok \in TextOf(f) : Occurrences(tok) = 0

ReturnedToDirective ==
    /\ pc = "preprocess" /\ ppPhase = "ret" /\ ppStack # <<>>
    /\ Top.pos + Len(Directive(Top.include_file)) <= Len(Top.content)
    /\ Substr(Top.content, Top.pos, Len(Directive(Top.include_file)))
            = Directive(Top.include_file)

BeforeDirective == Substr(Top.content, 0, Top.pos)
AfterDirective  == SubstrFrom(Top.content, Top.pos + Len(Directive(Top.include_file)))

RootCannotOpen ==
    /\ pc = "preprocess" /\ ppPhase = "call" /\ ppStack = <<>>
    /\ \/ ~Exists(ppArg)
       \/ fs'[Canonical(ppArg)].st = "unreadable"

\* the call of processIncludes in main has returned the empty text
RootIsEmpty ==
    /\ pc = "preprocess" /\ ppPhase = "ret" /\ ppStack = <<>>
    /\ ppRet = <<>>

\* C29: when the text of the root file comes back empty the driver reports
\* a read failure and exits with 1, before parsing and with no output file;
\* a root file that cannot be opened comes back as the empty text and so
\* takes the same exit.
C29_EmptyRootIsReadFailure ==
    [][/\ RootIsEmpty =>
            /\ pc' = "exit" /\ exitCode' = 1 /\ failure' = "read"
            /\ outFile' = "untouched" /\ called' = {}
       /\ RootCannotOpen =>
            /\ pc' = "preprocess" /\ ppPhase' = "ret" /\ ppStack' = <<>>
            /\ ppRet' = <<>>]_vars

(***************************************************************************)
(* Claims about the resolution of calls.                                   *)
(***************************************************************************)
\* what the callee of the function at position i may be for its call to
\* resolve: an extern anywhere, the function itself, a function before it
Callable(i) ==
    \/ \E j \in 1..Len(cDecls) :
            cDecls[j].kind = "extern" /\ cDecls[j].name = cDecls[i].callee
    \/ cDecls[i].callee = cDecls[i].name
    \/ \E j \in 1..(i - 1) :
            cDecls[j].kind = "fn" /\ cDecls[j].name = cDecls[i].callee

\* C24: the call in a function body resolves exactly when its callee is an
\* extern declaration, the function being generated or a function declared
\* earlier in the source; a resolved call emits its argument code and the
\* call, an unresolved one returns null and emits nothing at all.
C24_CallsResolveInDeclarationOrder ==
    \A k \in 1..Len(cLog) :
        LET i == cLog[k].decl
        IN /\ cLog[k].v <=> Callable(i)
           /\ Callable(i) =>
                 /\ cLog[k].out # <<>>
                 /\ cLog[k].out[Len(cLog[k].out)] = [op |-> "call", n |-> cDecls[i].callee]
                 /\ Len(cLog[k].out) = IF cDecls[i].arg = "p" THEN 2 ELSE 1
           /\ ~Callable(i) => cLog[k].out = <<>>

\* fn f(p) { g(p); } fn g(p) { f(p); }: the call of g in f, written before g,
\* came to nothing, and the call of f in g resolved
C24_Witness ==
    /\ cPc = "done"
    /\ cDecls = <<FunctionDeclOf("f", "g", "p"), FunctionDeclOf("g", "f", "p")>>
    /\ cLog[1] = [decl |-> 1, v |-> FALSE, out |-> <<>>]
    /\ cLog[2].v

(***************************************************************************)
(* Claims about the initializer of a let.                                  *)
(***************************************************************************)
\* a let statement is generated: the only step of a running body that
\* creates an alloca
LetIsGenerated == genPc = "run" /\ nAlloca' = nAlloca + 1

\* C25: the initializer of a let is evaluated in the scope as it was before
\* the let, so an identifier in it that has the name of the declared
\* variable is loaded from the binding that was visible before the let (and
\* is null when there was none), never from the slot the let creates.
C25_InitializerSeesScopeBeforeLet ==
    [][LetIsGenerated =>
            \A i \in AppendedInstrs :
                i.op = "load" =>
                    /\ i.a # nAlloca'
                    /\ i.a = InnermostBinding(alloca_table, "x")]_vars

(***************************************************************************)
(* Claims about member access on a shadowed name.                          *)
(***************************************************************************)
\* C26: a member access on an identifier uses the binding an identifier load
\* uses, the innermost alloca of the name: what it yields comes from that
\* alloca, and when that alloca holds no struct the access yields null
\* instead of a member of the SSA value of another, shadowed binding.
C26_MemberOfInnermostBinding ==
    /\ mLast.kind \in {"gep", "extract"} =>
            (mLast.alloca = 0 \/ mLast.of = mLast.alloca)
    /\ (mLast.alloca # 0 /\ mTypes[mLast.alloca] # "P") => mLast.kind \in {"null", "none"}

(***************************************************************************)
(* Claims about the node stack of the AST builder.                         *)
(***************************************************************************)
\* the node stands for the statement written at position `at`, and the body
\* of a while holds such a node for each statement of its body, in order
RECURSIVE Faithful(_, _, _)
Faithful(node, stmt, at) ==
    /\ node # NullNode
    /\ node.at = at
    /\ stmt.t = "while" =>
          /\ Len(node.body) = Len(stmt.body)
          /\ \A i \in 1..Len(stmt.body) :
                Faithful(node.body[i], stmt.body[i], Append(at, i))

\* C27: the node stack is balanced for every program the grammar accepts,
\* block statements included: while the body of a function is visited the
\* stack is empty between two statements, every body holds one non-null node
\* for each statement written, in order, and when visitProgram returns the
\* stack holds the Program node and nothing else.
C27_NodeStackBalanced ==
    /\ tPc = "body" => tStack = <<>>
    /\ Len(tBody) = Len(tSrc)
    /\ \A i \in 1..Len(tSrc) : Faithful(tBody[i], tSrc[i], <<i>>)
    /\ tPc = "done" => (Len(tStack) = 1 /\ tStack[1].t = "program")

\* the same for the programs that hold no block statement
RECURSIVE HasBlock(_)
HasBlock(stmt) ==
    \/ stmt.t = "block"
    \/ \E i \in 1..Len(stmt.body) : HasBlock(stmt.body[i])

BalancedWithoutBlocks ==
    (\A i \in 1..Len(tSrc) : ~HasBlock(tSrc[i])) => C27_NodeStackBalanced

(***************************************************************************)
(* Claims about postfix expressions with several suffixes.                 *)
(***************************************************************************)
\* the nodes of a postfix expression, from the outermost to the primary
RECURSIVE Chain(_)
Chain(node) ==
    IF node.object = <<>> THEN {node} ELSE {node} \cup Chain(node.object)

\* C28: in a postfix expression with several suffixes the index of every
\* ArrayAccess node is the expression written in its own brackets and the
\* arguments of every CallExpr node are those of its own argument list.
C28_OperandsOfOwnSuffix ==
    pfPc = "built" =>
        \A node \in Chain(pfNode) :
            /\ node.t = "ArrayAccess" =>
                  node.operand = OwnOperand(pfChildren, "expression", node.at)
            /\ node.t = "CallExpr" =>
                  node.operand = OwnOperand(pfChildren, "argument_list", node.at)


====
